---- MODULE Spec2Model ----
(***************************************************************************)
(* Student ERP / achievement-tracking backend.                             *)
(*                                                                         *)
(* The document store is modelled by the collections the handlers touch:   *)
(* Achievement documents (ach), User documents (totalPoints, achievements) *)
(* and ERP documents (erp).  Every request handler is one action of Spec;  *)
(* ConcSpec splits the point-updating handlers at their awaits.  The       *)
(* suspicious-activity detector is computed on documents that carry title, *)
(* institute, level and createdAt (DetSpec, SubmitSpec, FreqSpec,          *)
(* CrossSpec, SimSpec).  The certificate validator (TrustSpec,             *)
(* ValidateSpec), the uploads routes (UploadSpec) and the leaderboard      *)
(* (RankSpec) are called on their own inputs; EmailSpec, ErpSpec and       *)
(* VerifyConcSpec run the admin decision with its email, the ERP handlers  *)
(* and overlapping verifyAchievement requests.                             *)
(***************************************************************************)
EXTENDS Integers, Sequences, FiniteSets, TLC

VARIABLES
    ach,           \* Achievement collection: id -> document
    nextId,        \* next fresh Achievement _id
    achievements,  \* User.achievements: student -> set of Achievement ids
    totalPoints,   \* User.totalPoints: student -> integer
    erp,           \* ERP collection: student -> document (one per student)
    manualSum,     \* history: net effect of manualAdjustPoints per student
    creditCount,   \* history: number of times points were credited per achievement
    creditSum,     \* history: amount credited to totalPoints per achievement
    last,          \* the request that was answered last, and its HTTP status
    opCount,       \* number of requests answered so far
    req,           \* ConcSpec: the handlers in flight, with their local documents
    svc,           \* SvcSpec: the calls made to the points service
    calc,          \* CalcSpec: one call of calculateAchievementPoints
    det            \* specifications of one service called on its own (detector,
                   \* certificate validator): its inputs and its result

vars == <<ach, nextId, achievements, totalPoints, erp, manualSum,
          creditCount, creditSum, last, opCount, req, svc, calc, det>>

----------------------------------------------------------------------------
(* Bounds of the model *)

MaxAch == 2
MaxOps == 4

AchIds == 1..MaxAch
\* one id past the allocated ones is always a miss (404)
ReqIds == 1..(MaxAch + 1)

Students == {"s1", "s2"}
\* an id with no User document
GhostUser == "ghost"
UserIds == Students \cup {GhostUser}

NoAward == "null"

\* inputs the admin and the environment choose from
CustomPointsInputs == {0, 30}
VerifyPointsInputs == {-5, 0, 30}
DeltaInputs == {-40, 25}
ErpPointsInputs == {0, 30}
\* a save that the store refuses: the handler's catch answers 500
Faults == {"achSave", "userSave"}
\* a read of the suspicious-activity detector that the store refuses
DetectorFaults == {"historyRead"}
\* an email call that reports a failure, and one that throws
EmailFaults == {"emailFails", "emailThrows"}
NoFault == "none"

----------------------------------------------------------------------------
(* Points service *)

levelPoints ==
    [International |-> 150, National |-> 100, State |-> 80,
     District |-> 60, College |-> 40, Department |-> 20]

\* the award multipliers, in tenths (2.0, 1.5, 1.2, 1.1, 0.5)
awardMultipliers ==
    [a \in {"1", "2", "3", "runner", "participation"} |->
        CASE a = "1" -> 20
          [] a = "2" -> 15
          [] a = "3" -> 12
          [] a = "runner" -> 11
          [] a = "participation" -> 5]

DefaultLevelPoints == 10
DefaultMultiplier == 5

\* Math.round of n/10 for n >= 0: nearest integer, halves up
MathRound(n) == (2 * n + 10) \div 20

calculateAchievementPoints_unitDefault(achievementType, level, award) ==
    LET basePoints == IF level \in DOMAIN levelPoints
                      THEN levelPoints[level] ELSE DefaultLevelPoints
    IN  IF achievementType = "Competition" /\ award # NoAward
        THEN LET multiplier == IF award \in DOMAIN awardMultipliers
                               THEN awardMultipliers[award]
                               ELSE 10
             IN  MathRound(basePoints * multiplier)
        ELSE basePoints

calculateAchievementPoints(achievementType, level, award) ==
    LET basePoints == IF level \in DOMAIN levelPoints
                      THEN levelPoints[level] ELSE DefaultLevelPoints
    IN  IF achievementType = "Competition" /\ award # NoAward
        THEN LET multiplier == IF award \in DOMAIN awardMultipliers
                               THEN awardMultipliers[award]
                               ELSE DefaultMultiplier
             IN  MathRound(basePoints * multiplier)
        ELSE IF achievementType = "Certification"
        THEN basePoints
        ELSE basePoints

\* user.totalPoints = (user.totalPoints || 0) + Number(points || 0)
addPoints_overwrite(tp, userId, points) ==
    [tp EXCEPT ![userId] = points]

addPoints(tp, userId, points) ==
    [tp EXCEPT ![userId] = @ + points]

adjustPoints_noclamp(tp, userId, delta) ==
    [tp EXCEPT ![userId] = @ + delta]

adjustPoints(tp, userId, delta) ==
    [tp EXCEPT ![userId] = IF @ + delta < 0 THEN 0 ELSE @ + delta]

\* const user = await User.findById(userId); if (!user) throw ...
userFound_always(userId) == TRUE

userFound(userId) == userId \in Students

----------------------------------------------------------------------------
(* Achievement schema *)

LevelEnum == {"Department", "College", "District", "State", "National", "International"}
AwardEnum == {"1", "2", "3", "runner", "participation"}
TypeEnum == {"Certification", "Competition"}

\* request bodies of addAchievement; required = title, category, dateOfIssue
\* and organizedInstitute are all present
SubmitInputs ==
    { [required |-> TRUE, achievementType |-> "Certification", category |-> "Technical",
       subCategory |-> FALSE, level |-> "National", award |-> NoAward],
      [required |-> TRUE, achievementType |-> "Competition", category |-> "Technical",
       subCategory |-> FALSE, level |-> "National", award |-> "1"],
      [required |-> TRUE, achievementType |-> "Competition", category |-> "Non-technical",
       subCategory |-> TRUE, level |-> "Department", award |-> "participation"],
      [required |-> TRUE, achievementType |-> "Competition", category |-> "Technical",
       subCategory |-> FALSE, level |-> "State", award |-> NoAward],
      [required |-> TRUE, achievementType |-> "Certification", category |-> "Non-technical",
       subCategory |-> FALSE, level |-> "College", award |-> NoAward],
      [required |-> FALSE, achievementType |-> "Certification", category |-> "Technical",
       subCategory |-> FALSE, level |-> "State", award |-> NoAward],
      [required |-> TRUE, achievementType |-> "Certification", category |-> "Technical",
       subCategory |-> FALSE, level |-> "Regional", award |-> NoAward] }

\* what the handler answered: res.status(code); custom = customPoints was sent
Response(op, code, id, who, custom) ==
    [op |-> op, code |-> code, id |-> id, who |-> who, custom |-> custom]

Answer(r) == /\ last' = r
             /\ opCount' = opCount + 1
             /\ UNCHANGED <<req, svc, calc, det>>

Remove(f, id) == [i \in (DOMAIN f) \ {id} |-> f[i]]

Credit(id, points) ==
    /\ creditCount' = [creditCount EXCEPT ![id] = IF points > 0 THEN @ + 1 ELSE @]
    /\ creditSum' = [creditSum EXCEPT ![id] = @ + points]

----------------------------------------------------------------------------
(* Suspicious-activity detector *)

\* The checks' parameter achievements is called history here.
\* Strings the detector compares are sequences of one-character strings;
\* createdAt and the clock are counted in hours.
Submitters == Students \cup {"s3", "s4"}

\* String.prototype.toLowerCase, on the letters the inputs use
toLowerCase(str) ==
    [i \in 1..Len(str) |->
        CASE str[i] = "A" -> "a"
          [] str[i] = "C" -> "c"
          [] str[i] = "I" -> "i"
          [] str[i] = "M" -> "m"
          [] OTHER -> str[i]]

Min3(a, b, c) ==
    IF a <= b /\ a <= c THEN a ELSE IF b <= c THEN b ELSE c

\* 1 - distance / maxLen as the fraction num / den
calculateStringSimilarity_byFirst(str1, str2) ==
    LET len1 == Len(str1)
        len2 == Len(str2)
        matrix[i \in 0..len2, j \in 0..len1] ==
            IF i = 0 THEN j
            ELSE IF j = 0 THEN i
            ELSE IF str2[i] = str1[j] THEN matrix[i - 1, j - 1]
            ELSE Min3(matrix[i - 1, j - 1] + 1,
                      matrix[i, j - 1] + 1,
                      matrix[i - 1, j] + 1)
    IN  IF len1 = 0 /\ len2 = 0 THEN [num |-> 1, den |-> 1]
        ELSE [num |-> len1 - matrix[len2, len1], den |-> len1]

calculateStringSimilarity(str1, str2) ==
    LET len1 == Len(str1)
        len2 == Len(str2)
        matrix[i \in 0..len2, j \in 0..len1] ==
            IF i = 0 THEN j
            ELSE IF j = 0 THEN i
            ELSE IF str2[i] = str1[j] THEN matrix[i - 1, j - 1]
            ELSE Min3(matrix[i - 1, j - 1] + 1,
                      matrix[i, j - 1] + 1,
                      matrix[i - 1, j] + 1)
        maxLen == IF len1 > len2 THEN len1 ELSE len2
    IN  IF maxLen = 0 THEN [num |-> 1, den |-> 1]
        ELSE [num |-> maxLen - matrix[len2, len1], den |-> maxLen]

\* similarity > tenths / 10
exceeds(similarity, tenths) == similarity.num * 10 > tenths * similarity.den

\* (new Date() - new Date(ach.createdAt)) / (1000 * 60 * 60 * 24) <= days
withinDays(a, now, days) == now - a.createdAt <= days * 24

\* Achievement.find({ student: studentId }).sort({ createdAt: -1 })
RECURSIVE sortByCreatedAtDesc(_)
sortByCreatedAtDesc(docs) ==
    IF docs = << >> THEN << >>
    ELSE LET k == CHOOSE i \in 1..Len(docs) :
                      \A j \in 1..Len(docs) : docs[j].createdAt <= docs[i].createdAt
         IN  <<docs[k]>> \o
             sortByCreatedAtDesc(SubSeq(docs, 1, k - 1) \o SubSeq(docs, k + 1, Len(docs)))

findByStudent(store, studentId) ==
    sortByCreatedAtDesc(SelectSeq(store, LAMBDA a : a.student = studentId))

checkBulkSubmissions(history, now) ==
    LET recentSubmissions == SelectSeq(history, LAMBDA a : withinDays(a, now, 7))
    IN  Len(recentSubmissions) >= 5

checkDuplicateSubmissions(history, newAchievement) ==
    LET similarAchievements ==
            SelectSeq(history, LAMBDA a :
                LET titleSimilarity ==
                        calculateStringSimilarity(toLowerCase(a.title),
                                                  toLowerCase(newAchievement.title))
                    organizationSimilarity ==
                        calculateStringSimilarity(
                            toLowerCase(a.organizedInstitute),
                            toLowerCase(newAchievement.organizedInstitute))
                IN  exceeds(titleSimilarity, 8) \/ exceeds(organizationSimilarity, 9))
    IN  Len(similarAchievements) > 0

checkUnrealisticProgression(history, newAchievement, now) ==
    LET recentAchievements == SelectSeq(history, LAMBDA a : withinDays(a, now, 30))
        levelProgression ==
            {recentAchievements[i].level : i \in 1..Len(recentAchievements)}
                \cup {newAchievement.level}
        hasBasicLevel == levelProgression \cap {"Department", "College"} # {}
        hasAdvancedLevel == levelProgression \cap {"National", "International"} # {}
    IN  hasBasicLevel /\ hasAdvancedLevel /\ Len(recentAchievements) <= 2

\* getHours of a time counted in hours
getHours(time) == time % 24

checkSuspiciousTiming(history, now) ==
    LET submissionHours ==
            [i \in 1..(Len(history) + 1) |->
                IF i <= Len(history) THEN getHours(history[i].createdAt)
                ELSE getHours(now)]
        nightSubmissions ==
            Cardinality({i \in 1..Len(submissionHours) :
                            submissionHours[i] >= 23 \/ submissionHours[i] <= 5})
    IN  /\ nightSubmissions * 10 > 8 * Len(submissionHours)
        /\ Len(submissionHours) >= 3

\* intervals.reduce((a, b) => a + b, 0)
RECURSIVE reduceSum(_, _)
reduceSum(f, n) == IF n = 0 THEN 0 ELSE f[n] + reduceSum(f, n - 1)

\* intervals are kept in hours: variance < 1 and avgInterval < 7 (in days)
\* are compared after multiplying out the divisions
checkSubmissionFrequency(history) ==
    IF Len(history) < 3 THEN FALSE
    ELSE LET n == Len(history) - 1
             intervals == [i \in 1..n |->
                              history[i].createdAt - history[i + 1].createdAt]
             total == reduceSum(intervals, n)
             squares == reduceSum([i \in 1..n |-> intervals[i] * intervals[i]], n)
         IN  /\ n * squares - total * total < n * n * 24 * 24
             /\ total < 7 * 24 * n
             /\ n >= 3

\* String.prototype.split(' ')
RECURSIVE split(_)
split(str) ==
    IF \A i \in 1..Len(str) : str[i] # " " THEN <<str>>
    ELSE LET k == CHOOSE i \in 1..Len(str) :
                      str[i] = " " /\ \A j \in 1..(i - 1) : str[j] # " "
         IN  <<SubSeq(str, 1, k - 1)>> \o split(SubSeq(str, k + 1, Len(str)))

\* new RegExp(tokens.join('|'), 'i').test(text), for tokens of letters
regexTest(tokens, text) ==
    \E t \in 1..Len(tokens) :
        LET tok == toLowerCase(tokens[t])
            low == toLowerCase(text)
        IN  \E k \in 1..(Len(low) - Len(tok) + 1) :
                SubSeq(low, k, k + Len(tok) - 1) = tok

checkCrossStudentPatterns(store, newAchievement, now) ==
    LET tokens == split(newAchievement.title)
        similarAchievements ==
            SelectSeq(store, LAMBDA a :
                /\ a.student # newAchievement.student
                /\ regexTest(tokens, a.title)
                /\ a.organizedInstitute = newAchievement.organizedInstitute
                /\ a.createdAt >= now - 30 * 24)
    IN  Len(similarAchievements) >= 3

\* the verdict returned when an exception was caught; it has no
\* suspiciousPatterns property
errorVerdict ==
    [riskScore |-> 0, isSuspicious |-> FALSE, requiresReview |-> TRUE, error |-> TRUE]

riskVerdict_uncapped(riskScore, suspiciousPatterns) ==
    [riskScore |-> riskScore,
     isSuspicious |-> riskScore >= 50,
     requiresReview |-> riskScore >= 30,
     suspiciousPatterns |-> suspiciousPatterns]

riskVerdict(riskScore, suspiciousPatterns) ==
    [riskScore |-> IF riskScore < 100 THEN riskScore ELSE 100,
     isSuspicious |-> riskScore >= 50,
     requiresReview |-> riskScore >= 30,
     suspiciousPatterns |-> suspiciousPatterns]

\* readFails: Achievement.find rejects and the catch block answers
analyzeSubmissionPattern(store, studentId, newAchievement, now, readFails) ==
    IF readFails THEN errorVerdict
    ELSE LET studentAchievements == findByStudent(store, studentId)
             bulkSubmissionCheck == checkBulkSubmissions(studentAchievements, now)
             duplicateCheck ==
                 checkDuplicateSubmissions(studentAchievements, newAchievement)
             progressionCheck ==
                 checkUnrealisticProgression(studentAchievements, newAchievement, now)
             timingCheck == checkSuspiciousTiming(studentAchievements, now)
             frequencyCheck == checkSubmissionFrequency(studentAchievements)
             crossStudentCheck == checkCrossStudentPatterns(store, newAchievement, now)
             riskScore ==
                 (IF bulkSubmissionCheck THEN 25 ELSE 0)
                 + (IF duplicateCheck THEN 30 ELSE 0)
                 + (IF progressionCheck THEN 20 ELSE 0)
                 + (IF timingCheck THEN 15 ELSE 0)
                 + (IF frequencyCheck THEN 10 ELSE 0)
                 + (IF crossStudentCheck THEN 35 ELSE 0)
             suspiciousPatterns ==
                 (IF bulkSubmissionCheck THEN {"BULK_SUBMISSION"} ELSE {})
                 \cup (IF duplicateCheck THEN {"DUPLICATE_SUBMISSION"} ELSE {})
                 \cup (IF progressionCheck THEN {"UNREALISTIC_PROGRESSION"} ELSE {})
                 \cup (IF timingCheck THEN {"SUSPICIOUS_TIMING"} ELSE {})
                 \cup (IF frequencyCheck THEN {"REGULAR_INTERVALS"} ELSE {})
                 \cup (IF crossStudentCheck THEN {"CROSS_STUDENT_PATTERN"} ELSE {})
         IN  riskVerdict(riskScore, suspiciousPatterns)

\* what addAchievement does with the verdict: it is stored when flagged, and
\* the log line then reads suspiciousAnalysis.suspiciousPatterns.map
logThrows(suspiciousAnalysis) ==
    /\ suspiciousAnalysis.isSuspicious \/ suspiciousAnalysis.requiresReview
    /\ "suspiciousPatterns" \notin DOMAIN suspiciousAnalysis

----------------------------------------------------------------------------
(* Achievement controller *)

\* the three checks that answer 400 before anything is written
validationError_awardOptional(body) ==
    \/ ~body.required
    \/ body.category = "Non-technical" /\ ~body.subCategory

validationError(body) ==
    \/ ~body.required
    \/ body.category = "Non-technical" /\ ~body.subCategory
    \/ body.achievementType = "Competition" /\ body.award = NoAward

\* fault = "historyRead": the detector's read of the history fails.  A verdict
\* of a completed analysis carries suspiciousPatterns, so the handler reaches
\* the $push whatever the verdict is.
addAchievement(s, body, fault) ==
    /\ opCount < MaxOps
    /\ nextId <= MaxAch
    /\ IF validationError(body)
       THEN /\ Answer(Response("addAchievement", 400, 0, s, FALSE))
            /\ UNCHANGED <<ach, nextId, achievements, totalPoints, erp,
                           manualSum, creditCount, creditSum>>
       ELSE IF body.level \notin LevelEnum
       THEN \* Achievement.create fails schema validation
            /\ Answer(Response("addAchievement", 500, 0, s, FALSE))
            /\ UNCHANGED <<ach, nextId, achievements, totalPoints, erp,
                           manualSum, creditCount, creditSum>>
       ELSE /\ ach' = [i \in (DOMAIN ach) \cup {nextId} |->
                        IF i = nextId
                        THEN [student |-> s,
                              achievementType |-> body.achievementType,
                              level |-> body.level,
                              award |-> IF body.achievementType = "Competition"
                                        THEN body.award ELSE NoAward,
                              status |-> "pending",
                              points |-> 0]
                        ELSE ach[i]]
            /\ nextId' = nextId + 1
            /\ IF fault = "historyRead" /\ logThrows(errorVerdict)
               THEN \* the catch answers 500; the $push was not reached
                    /\ UNCHANGED achievements
                    /\ Answer(Response("addAchievement", 500, nextId, s, FALSE))
               ELSE /\ achievements' = [achievements EXCEPT ![s] = @ \cup {nextId}]
                    /\ Answer(Response("addAchievement", 201, nextId, s, FALSE))
            /\ UNCHANGED <<totalPoints, erp, manualSum, creditCount, creditSum>>

deleteAchievement_anyone(s, id) ==
    /\ opCount < MaxOps
    /\ IF id \notin DOMAIN ach
       THEN /\ Answer(Response("deleteAchievement", 404, id, s, FALSE))
            /\ UNCHANGED <<ach, achievements>>
       ELSE /\ ach' = Remove(ach, id)
            /\ achievements' = [achievements EXCEPT ![s] = @ \ {id}]
            /\ Answer(Response("deleteAchievement", 200, id, s, FALSE))
    /\ UNCHANGED <<nextId, totalPoints, erp, manualSum, creditCount, creditSum>>

deleteAchievement(s, id) ==
    /\ opCount < MaxOps
    /\ IF id \notin DOMAIN ach
       THEN /\ Answer(Response("deleteAchievement", 404, id, s, FALSE))
            /\ UNCHANGED <<ach, achievements>>
       ELSE IF ach[id].student # s
       THEN /\ Answer(Response("deleteAchievement", 403, id, s, FALSE))
            /\ UNCHANGED <<ach, achievements>>
       ELSE /\ ach' = Remove(ach, id)
            /\ achievements' = [achievements EXCEPT ![s] = @ \ {id}]
            /\ Answer(Response("deleteAchievement", 200, id, s, FALSE))
    /\ UNCHANGED <<nextId, totalPoints, erp, manualSum, creditCount, creditSum>>

approveAchievement(id, hasCustom, customPoints, fault) ==
    /\ opCount < MaxOps
    /\ IF id \notin DOMAIN ach
       THEN /\ Answer(Response("approveAchievement", 404, id, "-", hasCustom))
            /\ UNCHANGED <<ach, totalPoints, creditCount, creditSum>>
       ELSE LET achievement == ach[id]
                calculatedPoints ==
                    IF hasCustom THEN customPoints
                    ELSE calculateAchievementPoints(achievement.achievementType,
                                                    achievement.level,
                                                    achievement.award)
            IN  IF fault = "achSave"
                THEN /\ Answer(Response("approveAchievement", 500, id,
                                        achievement.student, hasCustom))
                     /\ UNCHANGED <<ach, totalPoints, creditCount, creditSum>>
                ELSE /\ ach' = [ach EXCEPT ![id].status = "approved",
                                           ![id].points = calculatedPoints]
                     /\ IF calculatedPoints > 0 /\ fault = "userSave"
                        THEN /\ Answer(Response("approveAchievement", 500, id,
                                                achievement.student, hasCustom))
                             /\ UNCHANGED <<totalPoints, creditCount, creditSum>>
                        ELSE /\ IF calculatedPoints > 0
                                THEN /\ totalPoints' = addPoints(totalPoints,
                                                achievement.student, calculatedPoints)
                                     /\ Credit(id, calculatedPoints)
                                ELSE UNCHANGED <<totalPoints, creditCount, creditSum>>
                             /\ Answer(Response("approveAchievement", 200, id,
                                                achievement.student, hasCustom))
    /\ UNCHANGED <<nextId, achievements, erp, manualSum>>

rejectAchievement_reset(id, fault) ==
    /\ opCount < MaxOps
    /\ IF id \notin DOMAIN ach
       THEN /\ Answer(Response("rejectAchievement", 404, id, "-", FALSE))
            /\ UNCHANGED ach
       ELSE IF fault = "achSave"
       THEN /\ Answer(Response("rejectAchievement", 500, id, ach[id].student, FALSE))
            /\ UNCHANGED ach
       ELSE /\ ach' = [ach EXCEPT ![id].status = "rejected", ![id].points = 0]
            /\ Answer(Response("rejectAchievement", 200, id, ach[id].student, FALSE))
    /\ UNCHANGED <<nextId, achievements, totalPoints, erp, manualSum,
                   creditCount, creditSum>>

rejectAchievement(id, fault) ==
    /\ opCount < MaxOps
    /\ IF id \notin DOMAIN ach
       THEN /\ Answer(Response("rejectAchievement", 404, id, "-", FALSE))
            /\ UNCHANGED ach
       ELSE IF fault = "achSave"
       THEN /\ Answer(Response("rejectAchievement", 500, id, ach[id].student, FALSE))
            /\ UNCHANGED ach
       ELSE /\ ach' = [ach EXCEPT ![id].status = "rejected"]
            /\ Answer(Response("rejectAchievement", 200, id, ach[id].student, FALSE))
    /\ UNCHANGED <<nextId, achievements, totalPoints, erp, manualSum,
                   creditCount, creditSum>>

----------------------------------------------------------------------------
(* Admin controller *)

\* The handler awaits sendApprovalEmail / sendRejectionEmail after its saves,
\* inside its try block: a result {success: true} or {success: false} is put
\* into the 200 response, a rejected promise reaches the catch (500).
emailCode(fault) == IF fault = "emailThrows" THEN 500 ELSE 200

verifyAchievement(id, action, points, fault) ==
    /\ opCount < MaxOps
    /\ IF id \notin DOMAIN ach
       THEN /\ Answer(Response("verifyAchievement", 404, id, "-", FALSE))
            /\ UNCHANGED <<ach, totalPoints, creditCount, creditSum>>
       ELSE IF action = "approve"
       THEN IF ach[id].status # "approved"
            THEN IF fault = "achSave"
                 THEN /\ Answer(Response("verifyApprove", 500, id, ach[id].student, FALSE))
                      /\ UNCHANGED <<ach, totalPoints, creditCount, creditSum>>
                 ELSE /\ ach' = [ach EXCEPT ![id].status = "approved",
                                            ![id].points = points]
                      /\ IF fault = "userSave"
                         THEN /\ Answer(Response("verifyApprove", 500, id,
                                                 ach[id].student, FALSE))
                              /\ UNCHANGED <<totalPoints, creditCount, creditSum>>
                         ELSE /\ totalPoints' = [totalPoints EXCEPT
                                                   ![ach[id].student] = @ + points]
                              /\ Credit(id, points)
                              /\ Answer(Response("verifyApprove", emailCode(fault),
                                                 id, ach[id].student, FALSE))
            ELSE /\ Answer(Response("verifyApprove", 400, id, ach[id].student, FALSE))
                 /\ UNCHANGED <<ach, totalPoints, creditCount, creditSum>>
       ELSE IF action = "reject"
       THEN IF fault = "achSave"
            THEN /\ Answer(Response("verifyReject", 500, id, ach[id].student, FALSE))
                 /\ UNCHANGED <<ach, totalPoints, creditCount, creditSum>>
            ELSE /\ ach' = [ach EXCEPT ![id].status = "rejected"]
                 /\ Answer(Response("verifyReject", emailCode(fault), id,
                                    ach[id].student, FALSE))
                 /\ UNCHANGED <<totalPoints, creditCount, creditSum>>
       ELSE /\ Answer(Response("verifyAchievement", 400, id, ach[id].student, FALSE))
            /\ UNCHANGED <<ach, totalPoints, creditCount, creditSum>>
    /\ UNCHANGED <<nextId, achievements, erp, manualSum>>

adminDeleteAchievement(id) ==
    /\ opCount < MaxOps
    /\ IF id \notin DOMAIN ach
       THEN /\ Answer(Response("adminDeleteAchievement", 404, id, "-", FALSE))
            /\ UNCHANGED <<ach, achievements>>
       ELSE /\ ach' = Remove(ach, id)
            /\ achievements' = [achievements EXCEPT ![ach[id].student] = @ \ {id}]
            /\ Answer(Response("adminDeleteAchievement", 200, id, ach[id].student, FALSE))
    /\ UNCHANGED <<nextId, totalPoints, erp, manualSum, creditCount, creditSum>>

manualAdjustPoints(studentId, delta) ==
    /\ opCount < MaxOps
    /\ IF studentId \notin Students
       THEN /\ Answer(Response("manualAdjustPoints", 404, 0, studentId, FALSE))
            /\ UNCHANGED <<totalPoints, manualSum>>
       ELSE LET new == IF totalPoints[studentId] + delta > 0
                       THEN totalPoints[studentId] + delta ELSE 0
            IN  /\ totalPoints' = [totalPoints EXCEPT ![studentId] = new]
                /\ manualSum' = [manualSum EXCEPT
                                   ![studentId] = @ + (new - totalPoints[studentId])]
                /\ Answer(Response("manualAdjustPoints", 200, 0, studentId, FALSE))
    /\ UNCHANGED <<ach, nextId, achievements, erp, creditCount, creditSum>>

----------------------------------------------------------------------------
(* ERP controller *)

PlaceholderPhone == "0000000000"

\* request bodies of updateERP: the keys sent and their values
ErpBodies ==
    { [phoneNumber |-> "9999999999"],
      [semesters |-> 1],
      [status |-> "verified", erpPoints |-> 30] }

ProtectedKeys == {"status", "verifiedBy", "erpPoints"}

getMyERP(s) ==
    /\ opCount < MaxOps
    /\ IF s \notin DOMAIN erp
       THEN erp' = [u \in (DOMAIN erp) \cup {s} |->
                      IF u = s
                      THEN [status |-> "draft", erpPoints |-> 0,
                            phoneNumber |-> PlaceholderPhone, semesters |-> 0,
                            verifiedBy |-> "none", tenthProofUrl |-> "none"]
                      ELSE erp[u]]
       ELSE UNCHANGED erp
    /\ Answer(Response("getMyERP", 200, 0, s, FALSE))
    /\ UNCHANGED <<ach, nextId, achievements, totalPoints, manualSum,
                   creditCount, creditSum>>

updateERP(s, body) ==
    /\ opCount < MaxOps
    /\ IF s \notin DOMAIN erp
       THEN /\ Answer(Response("updateERP", 404, 0, s, FALSE))
            /\ UNCHANGED erp
       ELSE IF erp[s].status = "verified"
       THEN /\ Answer(Response("updateERP", 400, 0, s, FALSE))
            /\ UNCHANGED erp
       ELSE /\ erp' = [erp EXCEPT ![s] =
                         [key \in DOMAIN erp[s] |->
                            IF key \in DOMAIN body /\ key \notin ProtectedKeys
                            THEN body[key] ELSE erp[s][key]]]
            /\ Answer(Response("updateERP", 200, 0, s, FALSE))
    /\ UNCHANGED <<ach, nextId, achievements, totalPoints, manualSum,
                   creditCount, creditSum>>

\* multipart bodies of updatePersonalInfo: the personalData field (JSON text
\* that parses to the record, or text that does not parse) and the uploaded
\* files; none of the bodies carries scholarshipBasis or scholarshipType
PersonalBodies ==
    { [parses |-> TRUE, personalData |-> [phoneNumber |-> "8888888888"],
       files |-> {}],
      [parses |-> TRUE, personalData |-> [phoneNumber |-> "8888888888"],
       files |-> {"tenthProof"}],
      [parses |-> TRUE,
       personalData |-> [status |-> "verified", verifiedBy |-> "s1",
                         erpPoints |-> 30],
       files |-> {}],
      [parses |-> FALSE, personalData |-> << >>, files |-> {}] }

updatePersonalInfo(s, body) ==
    /\ opCount < MaxOps
    /\ IF s \notin DOMAIN erp
       THEN /\ Answer(Response("updatePersonalInfo", 404, 0, s, FALSE))
            /\ UNCHANGED erp
       ELSE IF erp[s].status = "verified"
       THEN /\ Answer(Response("updatePersonalInfo", 400, 0, s, FALSE))
            /\ UNCHANGED erp
       ELSE IF ~body.parses
       THEN /\ Answer(Response("updatePersonalInfo", 500, 0, s, FALSE))
            /\ UNCHANGED erp
       ELSE LET personalData == body.personalData
                updated == [key \in DOMAIN erp[s] |->
                              IF key \in DOMAIN personalData
                                 /\ key \notin ProtectedKeys
                              THEN personalData[key] ELSE erp[s][key]]
            IN  /\ erp' = [erp EXCEPT ![s] =
                             IF "tenthProof" \in body.files
                             THEN [updated EXCEPT !.tenthProofUrl = "/uploads/tenth"]
                             ELSE updated]
                /\ Answer(Response("updatePersonalInfo", 200, 0, s, FALSE))
    /\ UNCHANGED <<ach, nextId, achievements, totalPoints, manualSum,
                   creditCount, creditSum>>

submitERP(s) ==
    /\ opCount < MaxOps
    /\ IF s \notin DOMAIN erp
       THEN /\ Answer(Response("submitERP", 404, 0, s, FALSE))
            /\ UNCHANGED erp
       ELSE IF erp[s].phoneNumber = PlaceholderPhone \/ erp[s].semesters = 0
       THEN /\ Answer(Response("submitERP", 400, 0, s, FALSE))
            /\ UNCHANGED erp
       ELSE /\ erp' = [erp EXCEPT ![s].status = "submitted"]
            /\ Answer(Response("submitERP", 200, 0, s, FALSE))
    /\ UNCHANGED <<ach, nextId, achievements, totalPoints, manualSum,
                   creditCount, creditSum>>

verifyERP(s, action, points) ==
    /\ opCount < MaxOps
    /\ IF s \notin DOMAIN erp
       THEN /\ Answer(Response("verifyERP", 404, 0, s, FALSE))
            /\ UNCHANGED <<erp, totalPoints>>
       ELSE IF action = "verify"
       THEN /\ erp' = [erp EXCEPT ![s].status = "verified",
                                  ![s].verifiedBy = "admin",
                                  ![s].erpPoints = points]
            /\ totalPoints' = [totalPoints EXCEPT ![s] = @ + points]
            /\ Answer(Response("verifyERP", 200, 0, s, FALSE))
       ELSE IF action = "reject"
       THEN /\ erp' = [erp EXCEPT ![s].status = "rejected",
                                  ![s].verifiedBy = "admin"]
            /\ Answer(Response("rejectERP", 200, 0, s, FALSE))
            /\ UNCHANGED totalPoints
       ELSE /\ Answer(Response("verifyERP", 400, 0, s, FALSE))
            /\ UNCHANGED <<erp, totalPoints>>
    /\ UNCHANGED <<ach, nextId, achievements, manualSum, creditCount, creditSum>>

updateERPPoints(s, points) ==
    /\ opCount < MaxOps
    /\ IF s \notin DOMAIN erp
       THEN /\ Answer(Response("updateERPPoints", 404, 0, s, FALSE))
            /\ UNCHANGED <<erp, totalPoints>>
       ELSE LET oldPoints == erp[s].erpPoints
                newPoints == points
                pointsDiff == newPoints - oldPoints
            IN  /\ erp' = [erp EXCEPT ![s].erpPoints = newPoints]
                /\ totalPoints' = [totalPoints EXCEPT ![s] = @ + pointsDiff]
                /\ Answer(Response("updateERPPoints", 200, 0, s, FALSE))
    /\ UNCHANGED <<ach, nextId, achievements, manualSum, creditCount, creditSum>>

----------------------------------------------------------------------------
(* The request-at-a-time system: every handler runs to completion *)

NoRequest == Response("none", 0, 0, "-", FALSE)

Reqs == {"r1", "r2"}
Idle == [handler |-> "none", pc |-> "idle", id |-> 0, studentId |-> "-",
         custom |-> FALSE, points |-> 0, userRead |-> 0, newTotal |-> 0,
         wrote |-> FALSE, code |-> 0]
NoCalls == [op |-> "none", initial |-> [s \in Students |-> 0],
            deltas |-> [s \in Students |-> << >>], calls |-> 0, thrown |-> FALSE,
            userId |-> "-"]
NoCalc == [achievementType |-> "-", level |-> "-", award |-> "-",
           called |-> FALSE, result |-> 0]
NoAnalysis == [pc |-> "none"]

Init ==
    /\ req = [r \in Reqs |-> Idle]
    /\ svc = NoCalls
    /\ calc = NoCalc
    /\ det = NoAnalysis
    /\ ach = << >>
    /\ nextId = 1
    /\ achievements = [s \in Students |-> {}]
    /\ totalPoints = [s \in Students |-> 0]
    /\ erp = << >>
    /\ manualSum = [s \in Students |-> 0]
    /\ creditCount = [i \in AchIds |-> 0]
    /\ creditSum = [i \in AchIds |-> 0]
    /\ last = NoRequest
    /\ opCount = 0

Next ==
    \/ \E s \in Students, body \in SubmitInputs : addAchievement(s, body, NoFault)
    \/ \E s \in Students, id \in ReqIds : deleteAchievement(s, id)
    \/ \E id \in ReqIds, hasCustom \in BOOLEAN, customPoints \in CustomPointsInputs :
            approveAchievement(id, hasCustom, customPoints, NoFault)
    \/ \E id \in ReqIds : rejectAchievement(id, NoFault)
    \/ \E id \in ReqIds, action \in {"approve", "reject", "hold"},
          points \in VerifyPointsInputs :
            verifyAchievement(id, action, points, NoFault)
    \/ \E id \in ReqIds : adminDeleteAchievement(id)
    \/ \E studentId \in UserIds, delta \in DeltaInputs :
            manualAdjustPoints(studentId, delta)
    \/ \E s \in Students : getMyERP(s)
    \/ \E s \in Students, body \in ErpBodies : updateERP(s, body)
    \/ \E s \in Students : submitERP(s)
    \/ \E s \in Students, action \in {"verify", "reject", "hold"},
          points \in ErpPointsInputs : verifyERP(s, action, points)
    \/ \E s \in Students, points \in ErpPointsInputs : updateERPPoints(s, points)

Spec == Init /\ [][Next]_vars

\* the same system with saves that may fail
FaultNext ==
    \/ Next
    \/ \E s \in Students, body \in SubmitInputs, fault \in DetectorFaults :
            addAchievement(s, body, fault)
    \/ \E id \in ReqIds, hasCustom \in BOOLEAN, customPoints \in CustomPointsInputs,
          fault \in Faults : approveAchievement(id, hasCustom, customPoints, fault)
    \/ \E id \in ReqIds, fault \in Faults : rejectAchievement(id, fault)
    \/ \E id \in ReqIds, action \in {"approve", "reject"},
          points \in VerifyPointsInputs, fault \in Faults :
            verifyAchievement(id, action, points, fault)

FaultSpec == Init /\ [][FaultNext]_vars

\* submissions and admin decisions, with every outcome of the email call
EmailNext ==
    \/ \E s \in Students, body \in SubmitInputs : addAchievement(s, body, NoFault)
    \/ \E id \in ReqIds, action \in {"approve", "reject", "hold"},
          points \in VerifyPointsInputs, fault \in EmailFaults \cup {NoFault} :
            verifyAchievement(id, action, points, fault)

EmailSpec == Init /\ [][EmailNext]_vars

\* The ERP handlers on profiles that getMyERP has created: a draft with the
\* placeholder phone number, or a draft that updateERP has filled in
draftProfile ==
    [status |-> "draft", erpPoints |-> 0, phoneNumber |-> PlaceholderPhone,
     semesters |-> 0, verifiedBy |-> "none", tenthProofUrl |-> "none"]
filledProfile ==
    [draftProfile EXCEPT !.phoneNumber = "9999999999", !.semesters = 1]

ErpStart ==
    /\ ach = << >> /\ nextId = 1
    /\ achievements = [s \in Students |-> {}]
    /\ totalPoints = [s \in Students |-> 0]
    /\ erp \in [Students -> {draftProfile, filledProfile}]
    /\ manualSum = [s \in Students |-> 0]
    /\ creditCount = [i \in AchIds |-> 0]
    /\ creditSum = [i \in AchIds |-> 0]
    /\ last = NoRequest /\ opCount = 0
    /\ req = [r \in Reqs |-> Idle]
    /\ svc = NoCalls
    /\ calc = NoCalc
    /\ det = NoAnalysis

ErpNext ==
    \/ \E s \in Students, body \in ErpBodies : updateERP(s, body)
    \/ \E s \in Students, body \in PersonalBodies : updatePersonalInfo(s, body)
    \/ \E s \in Students : submitERP(s)
    \/ \E s \in Students, action \in {"verify", "reject", "hold"},
          points \in ErpPointsInputs : verifyERP(s, action, points)
    \/ \E s \in Students, points \in ErpPointsInputs : updateERPPoints(s, points)

ErpSpec == ErpStart /\ [][ErpNext]_vars

TypeOK ==
    /\ DOMAIN ach \subseteq AchIds
    /\ \A i \in DOMAIN ach : ach[i].status \in {"pending", "approved", "rejected"}
    /\ nextId \in 1..(MaxAch + 1)
    /\ opCount \in 0..MaxOps

----------------------------------------------------------------------------
(* calculateAchievementPoints as a function of its arguments *)

UnknownLevel == "Regional"
UnknownAward == "4"
CalcLevels == LevelEnum \cup {UnknownLevel}
CalcAwards == AwardEnum \cup {UnknownAward, NoAward}

CalcStart ==
    /\ ach = << >> /\ nextId = 1
    /\ achievements = [s \in Students |-> {}]
    /\ totalPoints = [s \in Students |-> 0]
    /\ erp = << >>
    /\ manualSum = [s \in Students |-> 0]
    /\ creditCount = [i \in AchIds |-> 0]
    /\ creditSum = [i \in AchIds |-> 0]
    /\ last = NoRequest /\ opCount = 0
    /\ req = [r \in Reqs |-> Idle]
    /\ svc = NoCalls
    /\ det = NoAnalysis
    /\ \E t \in TypeEnum, l \in CalcLevels, a \in CalcAwards :
          calc = [achievementType |-> t, level |-> l, award |-> a,
                  called |-> FALSE, result |-> 0]

Calculate ==
    /\ ~calc.called
    /\ calc' = [calc EXCEPT !.called = TRUE,
                            !.result = calculateAchievementPoints(
                                calc.achievementType, calc.level, calc.award)]
    /\ UNCHANGED <<ach, nextId, achievements, totalPoints, erp, manualSum,
                   creditCount, creditSum, last, opCount, req, svc, det>>

CalcSpec == CalcStart /\ [][Calculate]_vars

----------------------------------------------------------------------------
(* The points service called directly, one call after the other *)

MaxCalls == 3
SvcDeltas == {-30, -5, 10, 40}
SvcInitials == {0, 25}

\* the students reached their initial totalPoints by manual adjustments
SvcStart ==
    /\ ach = << >> /\ nextId = 1
    /\ achievements = [s \in Students |-> {}]
    /\ erp = << >>
    /\ creditCount = [i \in AchIds |-> 0]
    /\ creditSum = [i \in AchIds |-> 0]
    /\ req = [r \in Reqs |-> Idle]
    /\ calc = NoCalc
    /\ det = NoAnalysis
    /\ \E t0 \in SvcInitials, op \in {"addPoints", "adjustPoints"} :
          /\ totalPoints = [s \in Students |-> IF s = "s1" THEN t0 ELSE 0]
          /\ manualSum = totalPoints
          /\ opCount = IF t0 = 0 THEN 0 ELSE 1
          /\ last = IF t0 = 0 THEN NoRequest
                    ELSE Response("manualAdjustPoints", 200, 0, "s1", FALSE)
          /\ svc = [NoCalls EXCEPT !.op = op, !.initial = totalPoints]

addPointsCall(userId, points) ==
    /\ svc.op = "addPoints"
    /\ svc.calls < MaxCalls
    /\ IF ~userFound(userId)
       THEN \* throw new Error("User not found")
            /\ svc' = [svc EXCEPT !.calls = @ + 1, !.thrown = TRUE,
                                  !.userId = userId]
            /\ UNCHANGED totalPoints
       ELSE /\ totalPoints' = addPoints(totalPoints, userId, points)
            /\ svc' = [svc EXCEPT !.calls = @ + 1, !.thrown = FALSE,
                                  !.userId = userId,
                                  !.deltas[userId] = Append(@, points)]
    /\ UNCHANGED <<ach, nextId, achievements, erp, manualSum,
                   creditCount, creditSum, last, opCount, req, calc, det>>

adjustPointsCall(userId, delta) ==
    /\ svc.op = "adjustPoints"
    /\ svc.calls < MaxCalls
    /\ IF ~userFound(userId)
       THEN \* throw new Error("User not found")
            /\ svc' = [svc EXCEPT !.calls = @ + 1, !.thrown = TRUE,
                                  !.userId = userId]
            /\ UNCHANGED totalPoints
       ELSE /\ totalPoints' = adjustPoints(totalPoints, userId, delta)
            /\ svc' = [svc EXCEPT !.calls = @ + 1, !.thrown = FALSE,
                                  !.userId = userId,
                                  !.deltas[userId] = Append(@, delta)]
    /\ UNCHANGED <<ach, nextId, achievements, erp, manualSum,
                   creditCount, creditSum, last, opCount, req, calc, det>>

SvcNext ==
    \/ \E userId \in UserIds, points \in SvcDeltas : addPointsCall(userId, points)
    \/ \E userId \in UserIds, delta \in SvcDeltas : adjustPointsCall(userId, delta)

SvcSpec == SvcStart /\ [][SvcNext]_vars

----------------------------------------------------------------------------
(* Overlapping requests: each handler advances from one await to the next *)

ValidSubmits ==
    {b \in SubmitInputs :
        /\ b.required
        /\ ~(b.category = "Non-technical" /\ ~b.subCategory)
        /\ ~(b.achievementType = "Competition" /\ b.award = NoAward)
        /\ b.level \in LevelEnum}

Pending(s, b) ==
    [student |-> s, achievementType |-> b.achievementType, level |-> b.level,
     award |-> IF b.achievementType = "Competition" THEN b.award ELSE NoAward,
     status |-> "pending", points |-> 0]

\* student s1 has submitted two achievements, after an optional manual
\* adjustment of +25; no request is in flight
ConcStart ==
    /\ \E b1 \in ValidSubmits, b2 \in ValidSubmits :
          ach = <<Pending("s1", b1), Pending("s1", b2)>>
    /\ nextId = 3
    /\ achievements = [s \in Students |-> IF s = "s1" THEN {1, 2} ELSE {}]
    /\ \E t0 \in SvcInitials :
          /\ totalPoints = [s \in Students |-> IF s = "s1" THEN t0 ELSE 0]
          /\ manualSum = totalPoints
          /\ opCount = IF t0 = 0 THEN 2 ELSE 3
    /\ erp = << >>
    /\ creditCount = [i \in AchIds |-> 0]
    /\ creditSum = [i \in AchIds |-> 0]
    /\ last = Response("addAchievement", 201, 2, "s1", FALSE)
    /\ req = [r \in Reqs |-> Idle]
    /\ svc = NoCalls
    /\ calc = NoCalc
    /\ det = NoAnalysis

\* res.json / res.status(code).json of the handler run by r
Finish(r, rq, code) ==
    /\ req' = [req EXCEPT ![r] = [rq EXCEPT !.pc = "done", !.code = code]]
    /\ last' = Response(rq.handler, code, rq.id, rq.studentId, rq.custom)
    /\ opCount' = opCount + 1

\* approveAchievement up to its first await: Achievement.findById
approveFindAchievement(r, id, hasCustom, customPoints) ==
    /\ req[r].pc = "idle"
    /\ LET rq == [req[r] EXCEPT !.handler = "approveAchievement", !.id = id,
                                !.custom = hasCustom]
       IN  IF id \notin DOMAIN ach
           THEN Finish(r, rq, 404)
           ELSE /\ req' = [req EXCEPT ![r] =
                     [rq EXCEPT !.pc = "saveAchievement",
                                !.studentId = ach[id].student,
                                !.points = IF hasCustom THEN customPoints
                                           ELSE calculateAchievementPoints(
                                                    ach[id].achievementType,
                                                    ach[id].level, ach[id].award)]]
                /\ UNCHANGED <<last, opCount>>
    /\ UNCHANGED <<ach, nextId, achievements, totalPoints, erp, manualSum,
                   creditCount, creditSum, svc, calc, det>>

\* achievement.save(), then the response if there is nothing to add
approveSaveAchievement(r) ==
    /\ req[r].pc = "saveAchievement"
    /\ ach' = [ach EXCEPT ![req[r].id].status = "approved",
                          ![req[r].id].points = req[r].points]
    /\ IF req[r].points > 0
       THEN /\ req' = [req EXCEPT ![r].pc = "findUser"]
            /\ UNCHANGED <<last, opCount>>
       ELSE Finish(r, req[r], 200)
    /\ UNCHANGED <<nextId, achievements, totalPoints, erp, manualSum,
                   creditCount, creditSum, svc, calc, det>>

\* addPoints: User.findById and the assignment to user.totalPoints
addPointsFindUser(r) ==
    /\ req[r].pc = "findUser"
    /\ req' = [req EXCEPT ![r].pc = "saveUser",
                          ![r].userRead = totalPoints[req[r].studentId],
                          ![r].newTotal = totalPoints[req[r].studentId] + req[r].points]
    /\ UNCHANGED <<ach, nextId, achievements, totalPoints, erp, manualSum,
                   creditCount, creditSum, last, opCount, svc, calc, det>>

\* manualAdjustPoints up to user.save(): User.findById and the assignment
manualAdjustFindUser(r, studentId, delta) ==
    /\ req[r].pc = "idle"
    /\ LET rq == [req[r] EXCEPT !.handler = "manualAdjustPoints",
                                !.studentId = studentId, !.points = delta]
       IN  IF studentId \notin Students
           THEN Finish(r, rq, 404)
           ELSE /\ req' = [req EXCEPT ![r] =
                     [rq EXCEPT !.pc = "saveUser",
                                !.userRead = totalPoints[studentId],
                                !.newTotal = IF totalPoints[studentId] + delta > 0
                                             THEN totalPoints[studentId] + delta
                                             ELSE 0]]
                /\ UNCHANGED <<last, opCount>>
    /\ UNCHANGED <<ach, nextId, achievements, totalPoints, erp, manualSum,
                   creditCount, creditSum, svc, calc, det>>

\* user.save() writes the totalPoints the handler assigned
userSave_increment(tp, rq) ==
    [tp EXCEPT ![rq.studentId] = @ + rq.points]

userSave(tp, rq) ==
    [tp EXCEPT ![rq.studentId] = rq.newTotal]

saveUser(r) ==
    /\ req[r].pc = "saveUser"
    /\ totalPoints' = userSave(totalPoints, req[r])
    /\ IF req[r].handler = "approveAchievement"
       THEN /\ Credit(req[r].id, req[r].points)
            /\ UNCHANGED manualSum
       ELSE /\ manualSum' = [manualSum EXCEPT ![req[r].studentId] =
                                @ + (req[r].newTotal - req[r].userRead)]
            /\ UNCHANGED <<creditCount, creditSum>>
    /\ Finish(r, [req[r] EXCEPT !.wrote = TRUE], 200)
    /\ UNCHANGED <<ach, nextId, achievements, erp, svc, calc, det>>

ConcNext ==
    \/ \E r \in Reqs, id \in ReqIds, hasCustom \in BOOLEAN,
          customPoints \in CustomPointsInputs :
            approveFindAchievement(r, id, hasCustom, customPoints)
    \/ \E r \in Reqs : approveSaveAchievement(r)
    \/ \E r \in Reqs : addPointsFindUser(r)
    \/ \E r \in Reqs, studentId \in UserIds, delta \in DeltaInputs :
            manualAdjustFindUser(r, studentId, delta)
    \/ \E r \in Reqs : saveUser(r)

ConcSpec == ConcStart /\ [][ConcNext]_vars

----------------------------------------------------------------------------
(* Overlapping verifyAchievement requests *)

\* verifyAchievement up to ach.save(): Achievement.findById, the test of
\* ach.status and the assignments to the handler's own copy of the document
verifyFindAchievement(r, id, points) ==
    /\ req[r].pc = "idle"
    /\ LET rq == [req[r] EXCEPT !.handler = "verifyApprove", !.id = id,
                                !.points = points]
       IN  IF id \notin DOMAIN ach
           THEN Finish(r, rq, 404)
           ELSE IF ach[id].status = "approved"
           THEN Finish(r, [rq EXCEPT !.studentId = ach[id].student], 400)
           ELSE /\ req' = [req EXCEPT ![r] =
                     [rq EXCEPT !.pc = "verifySaveAchievement",
                                !.studentId = ach[id].student]]
                /\ UNCHANGED <<last, opCount>>
    /\ UNCHANGED <<ach, nextId, achievements, totalPoints, erp, manualSum,
                   creditCount, creditSum, svc, calc, det>>

\* ach.save()
verifySaveAchievement(r) ==
    /\ req[r].pc = "verifySaveAchievement"
    /\ ach' = [ach EXCEPT ![req[r].id].status = "approved",
                          ![req[r].id].points = req[r].points]
    /\ req' = [req EXCEPT ![r].pc = "verifyFindUser"]
    /\ UNCHANGED <<nextId, achievements, totalPoints, erp, manualSum,
                   creditCount, creditSum, last, opCount, svc, calc, det>>

\* User.findById and the assignment to user.totalPoints
verifyFindUser(r) ==
    /\ req[r].pc = "verifyFindUser"
    /\ req' = [req EXCEPT ![r].pc = "verifySaveUser",
                          ![r].userRead = totalPoints[req[r].studentId],
                          ![r].newTotal = totalPoints[req[r].studentId] + req[r].points]
    /\ UNCHANGED <<ach, nextId, achievements, totalPoints, erp, manualSum,
                   creditCount, creditSum, last, opCount, svc, calc, det>>

\* user.save(), the email and the response
verifySaveUser(r) ==
    /\ req[r].pc = "verifySaveUser"
    /\ totalPoints' = userSave(totalPoints, req[r])
    /\ Credit(req[r].id, req[r].points)
    /\ Finish(r, [req[r] EXCEPT !.wrote = TRUE], 200)
    /\ UNCHANGED <<ach, nextId, achievements, erp, manualSum, svc, calc, det>>

VerifyConcNext ==
    \/ \E r \in Reqs, id \in ReqIds, points \in VerifyPointsInputs :
            verifyFindAchievement(r, id, points)
    \/ \E r \in Reqs : verifySaveAchievement(r)
    \/ \E r \in Reqs : verifyFindUser(r)
    \/ \E r \in Reqs : verifySaveUser(r)

VerifyConcSpec == ConcStart /\ [][VerifyConcNext]_vars

----------------------------------------------------------------------------
(* The detector called on stored histories *)

MaxHist == 5

aiCup == <<"a", "i", " ", "c", "u", "p">>
aiCupCapitals == <<"A", "I", " ", "C", "u", "p">>
aiCap == <<"a", "i", " ", "c", "a", "p">>
train == <<"t", "r", "a", "i", "n">>
ml == <<"m", "l">>
go == <<"g", "o">>
iit == <<"i", "i", "t">>
nit == <<"n", "i", "t">>
bits == <<"b", "i", "t", "s">>

\* the clock when the detector runs: 02:00 and 14:00 of day 100
Clock == {100 * 24 + 2, 100 * 24 + 14}

\* earlier submissions of the student, each with the time that passed until
\* the next one (or until now)
HistKinds ==
    { [gap |-> 24, level |-> "College", title |-> aiCup, organizedInstitute |-> iit],
      [gap |-> 12, level |-> "National", title |-> ml, organizedInstitute |-> nit],
      [gap |-> 31 * 24, level |-> "State", title |-> aiCap, organizedInstitute |-> nit] }

CandInputs ==
    { [title |-> aiCupCapitals, organizedInstitute |-> iit, level |-> "College"],
      [title |-> go, organizedInstitute |-> bits, level |-> "International"] }

KindSeqs(kinds, n) == UNION {[1..m -> kinds] : m \in 0..n}

\* the documents of student s, most recent first, for the kinds ks
RECURSIVE historyOf(_, _, _)
historyOf(s, ks, now) ==
    IF ks = << >> THEN << >>
    ELSE LET createdAt == now - Head(ks).gap
         IN  <<[student |-> s, title |-> Head(ks).title,
                organizedInstitute |-> Head(ks).organizedInstitute,
                level |-> Head(ks).level, createdAt |-> createdAt]>>
             \o historyOf(s, Tail(ks), createdAt)

\* three other students submitted "ai cup" of the same institute yesterday
sameCertificate(now) ==
    [i \in 1..3 |->
        [student |-> CASE i = 1 -> "s2" [] i = 2 -> "s3" [] OTHER -> "s4",
         title |-> aiCup, organizedInstitute |-> iit,
         level |-> "College", createdAt |-> now - 24]]

NoVerdict == [pending |-> TRUE]

OtherStart ==
    /\ ach = << >> /\ nextId = 1
    /\ achievements = [s \in Students |-> {}]
    /\ totalPoints = [s \in Students |-> 0]
    /\ erp = << >>
    /\ manualSum = [s \in Students |-> 0]
    /\ creditCount = [i \in AchIds |-> 0]
    /\ creditSum = [i \in AchIds |-> 0]
    /\ last = NoRequest /\ opCount = 0
    /\ req = [r \in Reqs |-> Idle]
    /\ svc = NoCalls
    /\ calc = NoCalc

OtherUnchanged ==
    UNCHANGED <<ach, nextId, achievements, totalPoints, erp, manualSum,
                creditCount, creditSum, last, opCount, req, svc, calc>>

DetStart ==
    /\ OtherStart
    /\ \E ks \in KindSeqs(HistKinds, MaxHist), c \in CandInputs, now \in Clock,
          others \in BOOLEAN :
          det = [pc |-> "analyze",
                 store |-> (IF others THEN sameCertificate(now) ELSE << >>)
                           \o historyOf("s1", ks, now),
                 studentId |-> "s1",
                 candidate |-> [student |-> "s1", title |-> c.title,
                                organizedInstitute |-> c.organizedInstitute,
                                level |-> c.level],
                 now |-> now, created |-> 0, verdict |-> NoVerdict,
                 suspiciousActivity |-> NoVerdict, listed |-> FALSE, code |-> 0]

\* suspiciousActivityDetector.analyzeSubmissionPattern(req.user._id, achievementData)
analyzeSubmission(readFails) ==
    /\ det.pc = "analyze"
    /\ det' = [det EXCEPT !.pc = "analyzed",
                          !.verdict = analyzeSubmissionPattern(
                                          det.store, det.studentId, det.candidate,
                                          det.now, readFails)]
    /\ OtherUnchanged

DetNext == \E readFails \in BOOLEAN : analyzeSubmission(readFails)

DetSpec == DetStart /\ [][DetNext]_vars

----------------------------------------------------------------------------
(* addAchievement from Achievement.create on, with the documents the
   detector reads *)

MaxPrior == 2

SubmitStart ==
    /\ OtherStart
    /\ \E ks \in KindSeqs(HistKinds, MaxPrior), now \in Clock :
          det = [pc |-> "create",
                 store |-> historyOf("s1", ks, now),
                 studentId |-> "s1",
                 candidate |-> [student |-> "s1", title |-> << >>,
                                organizedInstitute |-> << >>, level |-> "-"],
                 now |-> now, created |-> 0, verdict |-> NoVerdict,
                 suspiciousActivity |-> NoVerdict, listed |-> FALSE, code |-> 0]

\* const ach = await Achievement.create(achievementData)
createAchievement(c) ==
    /\ det.pc = "create"
    /\ LET achievementData == [student |-> det.studentId, title |-> c.title,
                               organizedInstitute |-> c.organizedInstitute,
                               level |-> c.level]
       IN  det' = [det EXCEPT
                     !.pc = "analyze",
                     !.candidate = achievementData,
                     !.created = Len(det.store) + 1,
                     !.store = Append(det.store,
                                 [student |-> det.studentId, title |-> c.title,
                                  organizedInstitute |-> c.organizedInstitute,
                                  level |-> c.level, createdAt |-> det.now])]
    /\ OtherUnchanged

\* the verdict is saved on the document when it is flagged; then the $push
\* and the 201, unless the log line threw
storeVerdict ==
    /\ det.pc = "analyzed"
    /\ det' = [det EXCEPT
                 !.pc = "done",
                 !.suspiciousActivity =
                     IF det.verdict.isSuspicious \/ det.verdict.requiresReview
                     THEN det.verdict ELSE NoVerdict,
                 !.listed = ~logThrows(det.verdict),
                 !.code = IF logThrows(det.verdict) THEN 500 ELSE 201]
    /\ OtherUnchanged

SubmitNext ==
    \/ \E c \in CandInputs : createAchievement(c)
    \/ \E readFails \in BOOLEAN : analyzeSubmission(readFails)
    \/ storeVerdict

SubmitSpec == SubmitStart /\ [][SubmitNext]_vars

----------------------------------------------------------------------------
(* checkSubmissionFrequency and checkCrossStudentPatterns called on their own *)

MaxFreqHist == 4
MaxOthers == 3

\* hours between consecutive submissions: 1, 2, 4 and 7 days
GapInputs == {24, 48, 96, 168}

FreqStart ==
    /\ OtherStart
    /\ \E now \in Clock, gaps \in KindSeqs({[gap |-> g, level |-> "College",
                                             title |-> aiCup,
                                             organizedInstitute |-> iit] :
                                                g \in GapInputs}, MaxFreqHist) :
          det = [pc |-> "frequency",
                 history |-> historyOf("s1", gaps, now),
                 fired |-> FALSE]

checkFrequency ==
    /\ det.pc = "frequency"
    /\ det' = [det EXCEPT !.pc = "frequencyChecked",
                          !.fired = checkSubmissionFrequency(det.history)]
    /\ OtherUnchanged

FreqNext == checkFrequency

FreqSpec == FreqStart /\ [][FreqNext]_vars

\* documents of the other students, and one of the submitter
OtherKinds ==
    { [student |-> s, title |-> v.title, organizedInstitute |-> v.organizedInstitute,
       level |-> "College", age |-> v.age] :
         s \in Submitters \ {"s1"},
         v \in { [title |-> aiCup, organizedInstitute |-> iit, age |-> 24],
                 [title |-> train, organizedInstitute |-> iit, age |-> 24],
                 [title |-> aiCup, organizedInstitute |-> nit, age |-> 24],
                 [title |-> aiCup, organizedInstitute |-> iit, age |-> 31 * 24] } }
    \cup { [student |-> "s1", title |-> aiCup, organizedInstitute |-> iit,
            level |-> "College", age |-> 24] }

CrossStart ==
    /\ OtherStart
    /\ \E ks \in KindSeqs(OtherKinds, MaxOthers), now \in {100 * 24 + 14} :
          det = [pc |-> "cross",
                 store |-> [i \in 1..Len(ks) |->
                              [student |-> ks[i].student, title |-> ks[i].title,
                               organizedInstitute |-> ks[i].organizedInstitute,
                               level |-> ks[i].level,
                               createdAt |-> now - ks[i].age]],
                 candidate |-> [student |-> "s1", title |-> aiCup,
                                organizedInstitute |-> iit, level |-> "College"],
                 now |-> now, fired |-> FALSE]

checkCrossStudent ==
    /\ det.pc = "cross"
    /\ det' = [det EXCEPT !.pc = "crossChecked",
                          !.fired = checkCrossStudentPatterns(
                                        det.store, det.candidate, det.now)]
    /\ OtherUnchanged

CrossNext == checkCrossStudent

CrossSpec == CrossStart /\ [][CrossNext]_vars

----------------------------------------------------------------------------
(* calculateStringSimilarity called on pairs of strings *)

MaxLen == 3
Letters == {"a", "b"}

Strings == UNION {[1..n -> Letters] : n \in 0..MaxLen}

SimStart ==
    /\ OtherStart
    /\ \E a \in Strings, b \in Strings :
          det = [pc |-> "similarity", a |-> a, b |-> b,
                 ab |-> [num |-> 0, den |-> 1], ba |-> [num |-> 0, den |-> 1],
                 aa |-> [num |-> 0, den |-> 1]]

compareStrings ==
    /\ det.pc = "similarity"
    /\ det' = [det EXCEPT !.pc = "compared",
                          !.ab = calculateStringSimilarity(det.a, det.b),
                          !.ba = calculateStringSimilarity(det.b, det.a),
                          !.aa = calculateStringSimilarity(det.a, det.a)]
    /\ OtherUnchanged

SimNext == compareStrings

SimSpec == SimStart /\ [][SimNext]_vars

----------------------------------------------------------------------------
(* Certificate validator *)

\* A sub-score of the analysis object: the property is missing (undefined),
\* is JSON null, or is a number.
Undefined == [kind |-> "undefined", value |-> 0]
Null == [kind |-> "null", value |-> 0]
Num(n) == [kind |-> "number", value |-> n]

\* ToNumber of a sub-score in a product: null * w is 0
ToNumber(x) == x.value

\* the weights, in hundredths (0.3, 0.25, 0.2, 0.15 and 0.1)
SubScoreWeights ==
    [authenticity_score |-> 30, issuer_legitimacy |-> 25,
     content_accuracy |-> 20, technical_quality |-> 15]
VerificationWeight == 10
SubScores == {"authenticity_score", "issuer_legitimacy",
              "content_accuracy", "technical_quality"}

\* Math.round of num/den for num >= 0 and den > 0
RoundRatio(num, den) == (2 * num + den) \div (2 * den)

RECURSIVE SumOver(_, _)
SumOver(f, keys) ==
    IF keys = {} THEN 0
    ELSE LET k == CHOOSE x \in keys : TRUE
         IN  f[k] + SumOver(f, keys \ {k})

\* aiAnalysis.<k> !== undefined
counted(x) == x.kind # "undefined"

calculateTrustScore(aiAnalysis, verificationChecks) ==
    LET used == {k \in SubScores : counted(aiAnalysis[k])}
        passedChecks == {c \in DOMAIN verificationChecks :
                            verificationChecks[c].passed}
        \* 100 per passed check, divided by the number of checks
        verificationScore == (100 * Cardinality(passedChecks))
                                \div Cardinality(DOMAIN verificationChecks)
        score == SumOver([k \in SubScores |->
                            ToNumber(aiAnalysis[k]) * SubScoreWeights[k]], used)
                 + verificationScore * VerificationWeight
        totalWeight == SumOver(SubScoreWeights, used) + VerificationWeight
    IN  IF totalWeight > 0 THEN RoundRatio(score, totalWeight) ELSE 50

\* achievementData, as far as the local checks read it: the date lies in the
\* past or in the future, an issuer is given or not, and the lower-cased title
\* contains a keyword of its category or not (a category without keyword list
\* is "Other")
AchievementData ==
    [dateOfAchievement : {"undefined", "past", "future"},
     issuer : {"undefined", "NPTEL"},
     category : {"Course", "Other"},
     titleHasKeyword : BOOLEAN]

validateDates(achievementData) ==
    [passed |-> achievementData.dateOfAchievement # "future"]

verifyIssuer(achievementData) ==
    [passed |-> achievementData.issuer # "undefined"]

checkCategoryConsistency(achievementData) ==
    [passed |-> ~(achievementData.category # "Other"
                  /\ ~achievementData.titleHasKeyword)]

checkLevelAppropriateness(achievementData) == [passed |-> TRUE]

performVerificationChecks(achievementData) ==
    [dateValidation |-> validateDates(achievementData),
     issuerVerification |-> verifyIssuer(achievementData),
     categoryConsistency |-> checkCategoryConsistency(achievementData),
     levelAppropriate |-> checkLevelAppropriateness(achievementData)]

\* what the generative model answers: the call throws, the text holds no
\* {...}, the {...} is not JSON, or it is a JSON object
neutralAnalysis ==
    [authenticity_score |-> Num(50), issuer_legitimacy |-> Num(50),
     content_accuracy |-> Num(50), technical_quality |-> Num(50),
     fraud_indicators |-> {"AI_ANALYSIS_FAILED"},
     recommendation |-> "MANUAL_REVIEW", confidence_level |-> 0]

performAIAnalysis(response) ==
    IF response.kind = "json" THEN response.object ELSE neutralAnalysis

\* x < 40 of a sub-score: undefined compares false, null compares as 0
below40(x) == x.kind # "undefined" /\ ToNumber(x) < 40

identifyRedFlags(aiAnalysis, verificationChecks) ==
    aiAnalysis.fraud_indicators
      \cup (IF below40(aiAnalysis.authenticity_score)
            THEN {"LOW_AUTHENTICITY_SCORE"} ELSE {})
      \cup (IF below40(aiAnalysis.issuer_legitimacy)
            THEN {"UNVERIFIED_ISSUER"} ELSE {})
      \cup {c \in DOMAIN verificationChecks : ~verificationChecks[c].passed}

validationErrorVerdict ==
    [isValid |-> FALSE, error |-> TRUE, trustScore |-> 0,
     flags |-> {"VALIDATION_ERROR"}]

\* prepareImageForAnalysis throws when the file cannot be fetched or read;
\* the throw leaves the try block of validateCertificate
validateCertificate(fileReadable, response, achievementData) ==
    IF ~fileReadable THEN validationErrorVerdict
    ELSE LET aiAnalysis == performAIAnalysis(response)
             verificationChecks == performVerificationChecks(achievementData)
             trustScore == calculateTrustScore(aiAnalysis, verificationChecks)
         IN  [isValid |-> trustScore >= 70, error |-> FALSE,
              trustScore |-> trustScore,
              aiAnalysis |-> aiAnalysis,
              verificationChecks |-> verificationChecks,
              flags |-> identifyRedFlags(aiAnalysis, verificationChecks)]

----------------------------------------------------------------------------
(* calculateTrustScore called on analysis objects and check results *)

ScoreInputs == {Undefined, Null, Num(0), Num(80), Num(100)}

Analyses ==
    [authenticity_score : ScoreInputs, issuer_legitimacy : ScoreInputs,
     content_accuracy : ScoreInputs, technical_quality : ScoreInputs]

TrustStart ==
    /\ OtherStart
    /\ \E a \in Analyses, d \in AchievementData :
          det = [pc |-> "trust", aiAnalysis |-> a,
                 verificationChecks |-> performVerificationChecks(d),
                 trustScore |-> 0]

scoreTrust ==
    /\ det.pc = "trust"
    /\ det' = [det EXCEPT !.pc = "scored",
                          !.trustScore = calculateTrustScore(det.aiAnalysis,
                                              det.verificationChecks)]
    /\ OtherUnchanged

TrustNext == scoreTrust

TrustSpec == TrustStart /\ [][TrustNext]_vars

----------------------------------------------------------------------------
(* validateCertificate called on a proof file and an achievement *)

ResponseScores == {Undefined, Num(30), Num(90)}

Responses ==
    {[kind |-> k] : k \in {"throws", "noJson", "malformedJson"}}
      \cup {[kind |-> "json",
             object |-> [authenticity_score |-> a, issuer_legitimacy |-> i,
                         content_accuracy |-> c, technical_quality |-> t,
                         fraud_indicators |-> {},
                         recommendation |-> "REVIEW",
                         confidence_level |-> 80]] :
               a \in ResponseScores, i \in ResponseScores,
               c \in ResponseScores, t \in ResponseScores}

ValidateStart ==
    /\ OtherStart
    /\ \E f \in BOOLEAN, r \in Responses, d \in AchievementData :
          det = [pc |-> "validate", fileReadable |-> f, response |-> r,
                 achievementData |-> d, verdict |-> NoVerdict]

validate ==
    /\ det.pc = "validate"
    /\ det' = [det EXCEPT !.pc = "validated",
                          !.verdict = validateCertificate(det.fileReadable,
                                          det.response, det.achievementData)]
    /\ OtherUnchanged

ValidateNext == validate

ValidateSpec == ValidateStart /\ [][ValidateNext]_vars

----------------------------------------------------------------------------
(* GET /uploads/<filename>: the middleware chain of app.js *)

Filenames == {"cert.pdf", "photo.png", "id.jpg"}
\* a name the file route refuses ("..") and no upload carries
DottedName == "a..b"

Admins == {"a1"}
NoToken == [secret |-> "none", id |-> "-"]
\* a token is signed with the admin secret, the student secret or another
\* key, and names the id of its bearer
Tokens ==
    {NoToken}
      \cup [secret : {"admin", "student", "other"},
            id : Admins \cup Students \cup {GhostUser}]

NotServed(status, by) == [status |-> status, served |-> FALSE, by |-> by]
Served(by) == [status |-> 200, served |-> TRUE, by |-> by]

\* jwt.verify under the admin secret, then under the student secret; a token
\* that verifies as admin but names no Admin document is not tried as student
authUser(token) ==
    IF token = NoToken THEN 401
    ELSE IF token.secret = "admin"
    THEN (IF token.id \in Admins THEN 0 ELSE 401)
    ELSE IF token.secret = "student"
    THEN (IF token.id \in Students THEN 0 ELSE 401)
    ELSE 401

includesDots(filename) == filename = DottedName

\* router.get("/:filename", authUser, ...)
fileRoute(files, filename, token) ==
    IF authUser(token) # 0 THEN NotServed(401, "authUser")
    ELSE IF includesDots(filename) THEN NotServed(400, "fileRoute")
    ELSE IF filename \notin files THEN NotServed(404, "fileRoute")
    ELSE Served("fileRoute")

\* express.static(uploadsPath, {fallthrough: true}): an existing file is
\* sent, anything else is passed on
staticHit(files, filename) == filename \in files

\* app.use("/uploads", express.static(...)) is registered before
\* app.use("/uploads", fileRoutes)
getUpload(files, filename, token) ==
    IF staticHit(files, filename) THEN Served("express.static")
    ELSE fileRoute(files, filename, token)

NoResponse == [status |-> 0, served |-> FALSE, by |-> "-"]

UploadStart ==
    /\ OtherStart
    /\ det = [pc |-> "serving", files |-> {}, filename |-> "-",
              token |-> NoToken, response |-> NoResponse]

\* multer stores a proof file of a submission in the uploads directory
storeUpload ==
    /\ det.pc = "serving"
    /\ \E f \in Filenames \ det.files :
          det' = [det EXCEPT !.files = @ \cup {f}]
    /\ OtherUnchanged

requestUpload ==
    /\ det.pc = "serving"
    /\ \E f \in Filenames \cup {DottedName}, t \in Tokens :
          det' = [det EXCEPT !.filename = f, !.token = t,
                             !.response = getUpload(det.files, f, t)]
    /\ OtherUnchanged

UploadNext == storeUpload \/ requestUpload

UploadSpec == UploadStart /\ [][UploadNext]_vars

----------------------------------------------------------------------------
(* Leaderboard and rank *)

MaxUsers == 3
LeaderboardLimit == 100

Years == {"II", "III"}
Departments == {"CSE", "ECE"}
\* a query parameter that is not sent
NoParam == "undefined"

\* User documents: _id is the position in creation order
UserDocs(n) ==
    {[i \in 1..n |-> [id |-> i, createdAt |-> i, year |-> f[i].year,
                      department |-> f[i].department,
                      totalPoints |-> f[i].totalPoints]] :
        f \in [1..n -> [year : Years, department : Departments,
                        totalPoints : {0, 30}]]}

Range(seq) == {seq[i] : i \in DOMAIN seq}

\* User.find(filter): a key of the filter must match
find(users, filter) ==
    {u \in Range(users) :
        /\ filter.year # NoParam => u.year = filter.year
        /\ filter.department # NoParam => u.department = filter.department}

\* .sort({ totalPoints: -1, createdAt: 1 })
Before(u, v) ==
    \/ u.totalPoints > v.totalPoints
    \/ u.totalPoints = v.totalPoints /\ u.createdAt < v.createdAt

sortByPoints(found) ==
    [i \in 1..Cardinality(found) |->
        CHOOSE u \in found : Cardinality({v \in found : Before(v, u)}) = i - 1]

\* .limit(n)
limit(seq, n) == SubSeq(seq, 1, IF Len(seq) < n THEN Len(seq) ELSE n)

getLeaderboard(users, query) ==
    LET filter == [year |-> query.year, department |-> query.department]
        leaderboard == limit(sortByPoints(find(users, filter)), LeaderboardLimit)
    IN  [index \in 1..Len(leaderboard) |->
            [id |-> leaderboard[index].id,
             totalPoints |-> leaderboard[index].totalPoints,
             rank |-> index]]

\* allStudents.findIndex(...): -1 when no element matches
findIndex(seq, id) ==
    IF \E i \in DOMAIN seq : seq[i].id = id
    THEN (CHOOSE i \in DOMAIN seq : seq[i].id = id) - 1
    ELSE -1

getMyRank(users, userId, query) ==
    LET user == users[userId]
        filterYear == IF query.year # NoParam THEN query.year ELSE user.year
        filterDept == IF query.department # NoParam
                      THEN query.department ELSE user.department
        filter == [year |-> filterYear, department |-> filterDept]
        allStudents == sortByPoints(find(users, filter))
        userPosition == findIndex(allStudents, user.id)
        rank == userPosition + 1
        totalStudents == Len(allStudents)
        percentile == IF totalStudents > 0
                      THEN RoundRatio((totalStudents - rank + 1) * 100,
                                      totalStudents)
                      ELSE 0
    IN  [rank |-> rank, totalStudents |-> totalStudents,
         percentile |-> percentile, totalPoints |-> user.totalPoints]

NoRank == [rank |-> 0, totalStudents |-> 0, percentile |-> 0, totalPoints |-> 0]

RankStart ==
    /\ OtherStart
    /\ \E n \in 1..MaxUsers :
         \E users \in UserDocs(n), userId \in 1..n,
            year \in Years \cup {NoParam},
            department \in Departments \cup {NoParam} :
              det = [pc |-> "query", users |-> users, userId |-> userId,
                     query |-> [year |-> year, department |-> department],
                     leaderboard |-> << >>, myRank |-> NoRank]

showLeaderboard ==
    /\ det.pc = "query"
    /\ det' = [det EXCEPT !.pc = "listed",
                          !.leaderboard = getLeaderboard(det.users, det.query)]
    /\ OtherUnchanged

showMyRank ==
    /\ det.pc = "listed"
    /\ det' = [det EXCEPT !.pc = "ranked",
                          !.myRank = getMyRank(det.users, det.userId, det.query)]
    /\ OtherUnchanged

RankNext == showLeaderboard \/ showMyRank

RankSpec == RankStart /\ [][RankNext]_vars

----------------------------------------------------------------------------
(* Properties of the points bookkeeping *)

RECURSIVE SumPoints(_)
SumPoints(ids) ==
    IF ids = {} THEN 0
    ELSE LET i == CHOOSE x \in ids : TRUE
         IN  ach[i].points + SumPoints(ids \ {i})

\* what debugUserPoints recomputes: the points of the approved achievements
ApprovedOf(s) == {i \in DOMAIN ach : ach[i].student = s /\ ach[i].status = "approved"}

ErpPointsOf(s) == IF s \in DOMAIN erp THEN erp[s].erpPoints ELSE 0

\* C1: after any sequence of completed requests, every student's totalPoints
\* equals the points of the student's approved achievements plus the ERP
\* points plus the net manual adjustments.
TotalPointsInSync ==
    \A s \in Students :
        totalPoints[s] = SumPoints(ApprovedOf(s)) + ErpPointsOf(s) + manualSum[s]

\* C2: an achievement carries positive points only while its status is approved.
PositivePointsOnlyIfApproved ==
    \A i \in DOMAIN ach : ach[i].points > 0 => ach[i].status = "approved"

\* C3: once an achievement is approved or rejected, no later request changes
\* its status.
StatusIsOneShot ==
    [][\A i \in (DOMAIN ach) \cap (DOMAIN ach') :
          ach[i].status \in {"approved", "rejected"} => ach'[i].status = ach[i].status]_vars

\* C4: the student's totalPoints is increased for an achievement at most once,
\* however often approve requests are repeated.
CreditedAtMostOnce ==
    \A i \in AchIds : creditCount[i] <= 1

ApproveOps == {"approveAchievement", "verifyApprove"}
RejectOps == {"rejectAchievement", "verifyReject"}

\* C5: when an approve request has finished, with success or with an error,
\* the achievement is approved with points p exactly if totalPoints was
\* increased by p for it (and by nothing if it is not approved).
ApprovalAllOrNothing ==
    (last.op \in ApproveOps /\ last.id \in DOMAIN ach) =>
        IF ach[last.id].status = "approved"
        THEN creditSum[last.id] = ach[last.id].points
        ELSE creditSum[last.id] = 0

\* C6: a successful approveAchievement without customPoints sets the points to
\* calculateAchievementPoints(type, level, award), raises the owner's
\* totalPoints by exactly that amount (200 for Competition / National / '1')
\* and leaves every other student's totalPoints alone.
ApproveCreditsCalculatedPoints ==
    [][(last'.op = "approveAchievement" /\ last'.code = 200 /\ ~last'.custom
        /\ opCount' = opCount + 1) =>
          LET a == ach[last'.id]
              p == calculateAchievementPoints(a.achievementType, a.level, a.award)
          IN  /\ ach'[last'.id].status = "approved"
              /\ ach'[last'.id].points = p
              /\ totalPoints'[a.student] = totalPoints[a.student] + p
              /\ \A o \in Students \ {a.student} : totalPoints'[o] = totalPoints[o]
              /\ (a.achievementType = "Competition" /\ a.level = "National"
                  /\ a.award = "1") => p = 200]_vars

\* a Competition / National / '1' achievement was approved without
\* customPoints while its owner already had points
ApprovedNational200 ==
    /\ last.op = "approveAchievement" /\ last.code = 200 /\ ~last.custom
    /\ last.id \in DOMAIN ach
    /\ ach[last.id].points = 200
    /\ totalPoints[last.who] = 225
    /\ \E o \in Students \ {last.who} : totalPoints[o] = 0

\* C7: the reject path changes neither the points of any achievement nor any
\* student's totalPoints, whatever the achievement's status was.
RejectLeavesPoints ==
    [][(last'.op \in RejectOps /\ opCount' = opCount + 1) =>
          /\ totalPoints' = totalPoints
          /\ DOMAIN ach' = DOMAIN ach
          /\ \A i \in DOMAIN ach : ach'[i].points = ach[i].points]_vars

\* an approved achievement with positive points was rejected
RejectedAfterApproval ==
    /\ last.op \in RejectOps /\ last.code = 200
    /\ last.id \in DOMAIN ach
    /\ ach[last.id].status = "rejected"
    /\ ach[last.id].points > 0
    /\ totalPoints[last.who] > 0

\* C12: a student can delete an achievement only while it has not been acted
\* on: deleteAchievement on an approved or rejected achievement does not
\* remove it, so an approved achievement and the points it contributed to
\* totalPoints stay in the collection.
OwnerDeletesOnlyPending ==
    [][(/\ last'.op = "deleteAchievement" /\ opCount' = opCount + 1
        /\ last'.id \in DOMAIN ach
        /\ ach[last'.id].status \in {"approved", "rejected"}) =>
          /\ last'.id \in DOMAIN ach'
          /\ ach'[last'.id] = ach[last'.id]]_vars

\* C13: deleteAchievement requested by a student who does not own the
\* achievement is refused as Forbidden (403) and leaves the achievement, the
\* owner's achievements list and every totalPoints unchanged; a request for an
\* id that does not exist is refused as NotFound (404) with no state change.
DeleteRefusalsChangeNothing ==
    [][(last'.op = "deleteAchievement" /\ opCount' = opCount + 1) =>
          /\ (last'.id \notin DOMAIN ach) =>
                /\ last'.code = 404
                /\ UNCHANGED <<ach, nextId, achievements, totalPoints, erp>>
          /\ (last'.id \in DOMAIN ach /\ ach[last'.id].student # last'.who) =>
                /\ last'.code = 403
                /\ UNCHANGED <<ach, nextId, achievements, totalPoints, erp>>]_vars

\* a student was refused the deletion of another student's approved
\* achievement, which is still stored, listed and counted
ForbiddenDeleteOfApproved ==
    /\ last.op = "deleteAchievement" /\ last.code = 403
    /\ last.id \in DOMAIN ach
    /\ ach[last.id].student # last.who
    /\ ach[last.id].status = "approved"
    /\ last.id \in achievements[ach[last.id].student]
    /\ totalPoints[ach[last.id].student] > 0

\* C14: addAchievement rejects a submission with a validation error before
\* any mutation: when a required field is missing, or the category is
\* Non-technical without subCategory, or the type is Competition without
\* award, no achievement is created and no student document changes; a
\* submission that is accepted is created with status pending and points 0.
InvalidSubmissionChangesNothing ==
    [][(last'.op = "addAchievement" /\ opCount' = opCount + 1) =>
          \A body \in SubmitInputs :
              addAchievement(last'.who, body, NoFault) =>
                IF \/ ~body.required
                   \/ body.category = "Non-technical" /\ ~body.subCategory
                   \/ body.achievementType = "Competition" /\ body.award = NoAward
                THEN /\ last'.code = 400
                     /\ UNCHANGED <<ach, nextId, achievements, totalPoints, erp>>
                ELSE last'.code = 201 =>
                        /\ last'.id \notin DOMAIN ach
                        /\ ach'[last'.id].student = last'.who
                        /\ ach'[last'.id].status = "pending"
                        /\ ach'[last'.id].points = 0
                        /\ totalPoints' = totalPoints]_vars

\* a submission was refused with 400 while an approved achievement and its
\* points were in the store
RefusedSubmission ==
    /\ last.op = "addAchievement" /\ last.code = 400
    /\ \E i \in DOMAIN ach : ach[i].status = "approved" /\ ach[i].student = last.who
    /\ totalPoints[last.who] > 0

\* C29: no student's totalPoints is negative in any reachable state, whatever
\* approvals, ERP verifications, ERP point updates and manual adjustments
\* have been applied.
TotalPointsNeverNegative == \A s \in Students : totalPoints[s] >= 0

----------------------------------------------------------------------------
(* Properties of the points service *)

\* the tables of the published contract, multipliers in tenths
LevelBase(level) ==
    CASE level = "International" -> 150
      [] level = "National" -> 100
      [] level = "State" -> 80
      [] level = "District" -> 60
      [] level = "College" -> 40
      [] level = "Department" -> 20
      [] OTHER -> 10

AwardTenths(award) ==
    CASE award = "1" -> 20
      [] award = "2" -> 15
      [] award = "3" -> 12
      [] award = "runner" -> 11
      [] award = "participation" -> 5
      [] OTHER -> 5

\* n tenths rounded to the nearest integer
RoundTenths(n) == IF (n % 10) * 2 >= 10 THEN (n \div 10) + 1 ELSE n \div 10

\* C9 as stated: the result is round(levelBase[level] * (type = Competition ?
\* awardMultiplier[award] : 1)), with base 10 for a level and multiplier 0.5
\* for an award that is absent from the tables, "no award" included.
CalcMatchesStatedFormula ==
    calc.called =>
        calc.result = RoundTenths(LevelBase(calc.level) *
                        (IF calc.achievementType = "Competition"
                         THEN AwardTenths(calc.award) ELSE 10))

\* C9 amended: the award multiplier (0.5 for an award absent from the table)
\* is applied only to a Competition that has an award; a Competition with no
\* award, like a Certification, gets the level's base points unmodified.
CalcMatchesFormula ==
    calc.called =>
        calc.result = RoundTenths(LevelBase(calc.level) *
                        (IF calc.achievementType = "Competition" /\ calc.award # NoAward
                         THEN AwardTenths(calc.award) ELSE 10))

\* a National Competition with no award was given the 100 base points
CompetitionWithoutAward ==
    /\ calc.called
    /\ calc.achievementType = "Competition"
    /\ calc.award = NoAward
    /\ calc.level = "National"
    /\ calc.result = 100

RECURSIVE SumSeq(_)
SumSeq(q) == IF q = << >> THEN 0 ELSE Head(q) + SumSeq(Tail(q))

Max0(n) == IF n < 0 THEN 0 ELSE n

\* the running total floored at 0 after every delta
RECURSIVE FlooredSum(_, _)
FlooredSum(start, q) ==
    IF q = << >> THEN start ELSE FlooredSum(Max0(start + Head(q)), Tail(q))

\* no running total start + d1 + ... + dk is negative
NeverBelowZero(start, q) ==
    \A k \in 1..Len(q) : start + SumSeq(SubSeq(q, 1, k)) >= 0

\* C10 as stated: n sequential calls with deltas d1..dn yield
\* initial + d1 + ... + dn, the result clamped at 0 for adjustPoints only.
ServiceYieldsClampedSum ==
    \A s \in Students :
        totalPoints[s] =
            IF svc.op = "adjustPoints"
            THEN Max0(svc.initial[s] + SumSeq(svc.deltas[s]))
            ELSE svc.initial[s] + SumSeq(svc.deltas[s])

\* C10 amended: addPoints yields initial + d1 + ... + dn, unclamped;
\* adjustPoints floors the running total at 0 after every call, so it yields
\* the floored running sum, which is never negative and equals
\* initial + d1 + ... + dn when no running total went below 0.
ServiceYieldsRunningSum ==
    \A s \in Students :
        LET start == svc.initial[s]
            q == svc.deltas[s]
        IN  IF svc.op = "adjustPoints"
            THEN /\ totalPoints[s] = FlooredSum(start, q)
                 /\ totalPoints[s] >= 0
                 /\ NeverBelowZero(start, q) => totalPoints[s] = start + SumSeq(q)
            ELSE totalPoints[s] = start + SumSeq(q)

\* adjustPoints floored an intermediate total, so the final total is above
\* the floored sum of all deltas
AdjustFlooredMidway ==
    /\ svc.op = "adjustPoints"
    /\ \E s \in Students :
          /\ Len(svc.deltas[s]) >= 2
          /\ totalPoints[s] > Max0(svc.initial[s] + SumSeq(svc.deltas[s]))

\* C11: addPoints and adjustPoints called for a student id that has no User
\* document fail with the not-found error and leave every student's
\* totalPoints as it was.
AbsentUserIsNotFound ==
    [][(svc'.calls = svc.calls + 1 /\ svc'.userId \notin Students) =>
          /\ svc'.thrown
          /\ \A s \in Students : totalPoints'[s] = totalPoints[s]]_vars

\* the service threw for the absent id after a student's total had moved
ThrownForGhost ==
    /\ svc.thrown
    /\ svc.userId = GhostUser
    /\ \E s \in Students : totalPoints[s] # svc.initial[s]

----------------------------------------------------------------------------
(* Properties of the suspicious-activity detector *)

AllPatterns ==
    {"BULK_SUBMISSION", "DUPLICATE_SUBMISSION", "UNREALISTIC_PROGRESSION",
     "SUSPICIOUS_TIMING", "REGULAR_INTERVALS", "CROSS_STUDENT_PATTERN"}

\* the contribution the contract gives each check
Contribution(type) ==
    CASE type = "BULK_SUBMISSION" -> 25
      [] type = "DUPLICATE_SUBMISSION" -> 30
      [] type = "UNREALISTIC_PROGRESSION" -> 20
      [] type = "SUSPICIOUS_TIMING" -> 15
      [] type = "REGULAR_INTERVALS" -> 10
      [] type = "CROSS_STUDENT_PATTERN" -> 35

RECURSIVE SumContributions(_)
SumContributions(types) ==
    IF types = {} THEN 0
    ELSE LET x == CHOOSE y \in types : TRUE
         IN  Contribution(x) + SumContributions(types \ {x})

Analyzed == det.pc = "analyzed" /\ "suspiciousPatterns" \in DOMAIN det.verdict

\* C15: for every combination of triggered checks the riskScore is
\* min(100, sum of the contributions of the triggered checks); it is always
\* within 0..100, and when all six checks are triggered it is exactly 100.
RiskScoreIsCappedSum ==
    /\ det.pc = "analyzed" => det.verdict.riskScore \in 0..100
    /\ Analyzed =>
          LET sum == SumContributions(det.verdict.suspiciousPatterns)
          IN  /\ det.verdict.riskScore = IF sum < 100 THEN sum ELSE 100
              /\ det.verdict.suspiciousPatterns = AllPatterns =>
                    det.verdict.riskScore = 100

\* five checks were triggered at once: their contributions add up to 115 and
\* the riskScore is 100
RiskScoreCapped ==
    /\ Analyzed
    /\ Cardinality(det.verdict.suspiciousPatterns) = 5
    /\ SumContributions(det.verdict.suspiciousPatterns) = 115
    /\ det.verdict.riskScore = 100

\* C16: every verdict of analyzeSubmissionPattern, the one returned when the
\* analysis failed included, has isSuspicious = (riskScore >= 50) and
\* requiresReview = (riskScore >= 30).
VerdictFlagsFollowScore ==
    det.pc = "analyzed" =>
        /\ det.verdict.isSuspicious <=> det.verdict.riskScore >= 50
        /\ det.verdict.requiresReview <=> det.verdict.riskScore >= 30

\* C17: a failure inside the detector never aborts the submission: the
\* achievement that addAchievement stored is appended to the student's
\* achievements list and the request is answered with success.
DetectorFailureKeepsSubmission ==
    [][(/\ last'.op = "addAchievement" /\ opCount' = opCount + 1
        /\ DOMAIN ach' # DOMAIN ach) =>
          /\ last'.code = 201
          /\ last'.id \in DOMAIN ach'
          /\ last'.id \in achievements'[last'.who]]_vars

\* the student's achievements stored before the candidate was created
PriorSubmissions ==
    {i \in 1..Len(det.store) :
        i # det.created /\ det.store[i].student = det.studentId}

SimilarToCandidate(a) ==
    \/ exceeds(calculateStringSimilarity(toLowerCase(a.title),
                                         toLowerCase(det.candidate.title)), 8)
    \/ exceeds(calculateStringSimilarity(toLowerCase(a.organizedInstitute),
                                         toLowerCase(det.candidate.organizedInstitute)), 9)

\* C18: in the submission flow DUPLICATE_SUBMISSION is triggered exactly if
\* an achievement the student submitted before the candidate has title
\* similarity > 0.8 or institute similarity > 0.9; the candidate is not
\* compared with itself, so a first submission is not flagged.
DuplicateOnlyAgainstPrior ==
    Analyzed =>
        /\ ("DUPLICATE_SUBMISSION" \in det.verdict.suspiciousPatterns) <=>
              \E i \in PriorSubmissions : SimilarToCandidate(det.store[i])
        /\ PriorSubmissions = {} =>
              "DUPLICATE_SUBMISSION" \notin det.verdict.suspiciousPatterns

\* the words of a title, in lower case
Words(title) ==
    LET tokens == split(toLowerCase(title))
    IN  {tokens[i] : i \in 1..Len(tokens)} \ {<< >>}

\* the other students with a recent achievement of the same institute whose
\* title shares a word with the candidate's
StudentsWithSameCertificate ==
    {det.store[i].student : i \in
        {j \in 1..Len(det.store) :
            /\ det.store[j].student # det.candidate.student
            /\ det.now - det.store[j].createdAt <= 30 * 24
            /\ Words(det.store[j].title) \cap Words(det.candidate.title) # {}
            /\ det.store[j].organizedInstitute = det.candidate.organizedInstitute}}

\* C19: the cross-student check fires exactly if at least 3 distinct students
\* other than the submitter have, within the trailing 30 days, an achievement
\* whose title shares a word with the candidate's title and whose institute
\* matches exactly; one other student with three such achievements does not
\* trigger it.
CrossFiresForThreeStudents ==
    det.pc = "crossChecked" =>
        (det.fired <=> Cardinality(StudentsWithSameCertificate) >= 3)

\* the gaps between consecutive submissions of a history, in hours
GapsOf(h) == [i \in 1..(Len(h) - 1) |-> h[i].createdAt - h[i + 1].createdAt]

\* variance of the gaps < 1 day^2 and mean gap < 7 days
RegularGaps(g) ==
    LET n == Len(g)
        total == reduceSum(g, n)
        squares == reduceSum([i \in 1..n |-> g[i] * g[i]], n)
    IN  /\ n * squares - total * total < n * n * 24 * 24
        /\ total < 7 * 24 * n

\* C20: the regular-interval check fires exactly if the history has at least
\* 3 entries, the variance of the gaps (in days) is < 1 and the mean gap is
\* < 7 days; it fires for 3 entries with equal gaps shorter than 7 days.
RegularIntervalsFromThreeEntries ==
    det.pc = "frequencyChecked" =>
        (det.fired <=> (Len(det.history) >= 3 /\ RegularGaps(GapsOf(det.history))))

\* the edit distance: fewest insertions, deletions and substitutions
RECURSIVE EditDistance(_, _)
EditDistance(a, b) ==
    IF a = << >> THEN Len(b)
    ELSE IF b = << >> THEN Len(a)
    ELSE Min3(EditDistance(Tail(a), Tail(b)) + (IF Head(a) = Head(b) THEN 0 ELSE 1),
              EditDistance(Tail(a), b) + 1,
              EditDistance(a, Tail(b)) + 1)

\* C21: calculateStringSimilarity is symmetric and reflexive:
\* similarity(a,b) = similarity(b,a), similarity(a,a) = 1, two empty strings
\* have similarity 1, and every result lies in [0,1] and equals
\* 1 - editDistance(a,b) / max(len a, len b).
SimilarityIsSymmetric ==
    det.pc = "compared" =>
        LET maxLen == IF Len(det.a) > Len(det.b) THEN Len(det.a) ELSE Len(det.b)
        IN  /\ det.ab.den > 0 /\ det.ba.den > 0 /\ det.aa.den > 0
            /\ det.ab.num * det.ba.den = det.ba.num * det.ab.den
            /\ det.aa.num = det.aa.den
            /\ 0 <= det.ab.num /\ det.ab.num <= det.ab.den
            /\ (det.a = << >> /\ det.b = << >>) => det.ab.num = det.ab.den
            /\ maxLen > 0 =>
                  det.ab.num * maxLen = (maxLen - EditDistance(det.a, det.b)) * det.ab.den

\* two strings of different lengths were compared and are partly similar
PartlySimilar ==
    /\ det.pc = "compared"
    /\ Len(det.a) < Len(det.b) /\ Len(det.a) > 0
    /\ 0 < det.ab.num /\ det.ab.num < det.ab.den
    /\ det.ba = det.ab

----------------------------------------------------------------------------
(* Properties of the certificate validator *)

\* the sub-scores that are numbers: neither missing nor null
PresentScores(aiAnalysis) == {k \in SubScores : aiAnalysis[k].kind = "number"}

PassRate(verificationChecks) ==
    (100 * Cardinality({c \in DOMAIN verificationChecks :
                            verificationChecks[c].passed}))
        \div Cardinality(DOMAIN verificationChecks)

WeightedAverage(aiAnalysis, verificationChecks) ==
    LET used == PresentScores(aiAnalysis)
        num == SumOver([k \in SubScores |->
                           aiAnalysis[k].value * SubScoreWeights[k]], used)
               + PassRate(verificationChecks) * VerificationWeight
        den == SumOver(SubScoreWeights, used) + VerificationWeight
    IN  (2 * num + den) \div (2 * den)

\* C22: the trust score is the rounded average of the sub-scores that are
\* present (weights 30, 25, 20, 15) and the pass rate of the local checks
\* (weight 10), renormalised by the weights used; a missing or null sub-score
\* adds neither value nor weight; the score lies in 0..100.
TrustScoreSkipsAbsent ==
    det.pc = "scored" =>
        /\ det.trustScore = WeightedAverage(det.aiAnalysis, det.verificationChecks)
        /\ det.trustScore \in 0..100

\* C23: every verdict carries an analysis; when the file cannot be obtained
\* or the model's answer is unusable the analysis is the neutral one, merged
\* with the local checks; isValid is trustScore >= 70.
VerdictAlwaysHasAnalysis ==
    det.pc = "validated" =>
        /\ det.verdict.isValid = (det.verdict.trustScore >= 70)
        /\ (~det.fileReadable \/ det.response.kind # "json") =>
              /\ "aiAnalysis" \in DOMAIN det.verdict
              /\ det.verdict.aiAnalysis = neutralAnalysis
              /\ det.verdict.verificationChecks
                    = performVerificationChecks(det.achievementData)

----------------------------------------------------------------------------
(* Properties of the admin decision and its email *)

\* C24: an approve or reject decision of verifyAchievement that is not
\* refused (404, "Already approved") is committed, approve credits the points,
\* and the admin is answered with the approval/rejection response (200),
\* whatever the email call does.
EmailNeverUndoesDecision ==
    [][(/\ opCount' = opCount + 1
        /\ last'.op \in {"verifyApprove", "verifyReject"}
        /\ last'.code # 400)
       => /\ last'.code = 200
          /\ ach'[last'.id].status =
                (IF last'.op = "verifyApprove" THEN "approved" ELSE "rejected")
          /\ last'.op = "verifyApprove" =>
                totalPoints'[last'.who] = totalPoints[last'.who] + ach'[last'.id].points]_vars

----------------------------------------------------------------------------
(* Properties of the uploads routes *)

\* C25: a GET /uploads/<filename> without a token, or with a token that is
\* valid under neither signing secret, is never answered with the content of
\* an uploaded file; only the authenticating file route serves an upload.
UploadsNeedValidToken ==
    /\ det.token.secret \in {"none", "other"} => ~det.response.served
    /\ det.response.served => det.response.by = "fileRoute"

----------------------------------------------------------------------------
(* Properties of the ERP profile *)

StudentErpOps == {"updateERP", "updatePersonalInfo", "submitERP"}

\* C26: a student operation (updateERP, updatePersonalInfo, submitERP) on a
\* verified profile changes none of its fields; no student operation changes
\* verifiedBy or erpPoints, and the only change of status by a student is
\* submitERP setting "submitted" on a profile that is not verified.
VerifiedProfileIsFrozen ==
    [][(opCount' = opCount + 1 /\ last'.op \in StudentErpOps)
       => LET s == last'.who
          IN  /\ erp[s].status = "verified" => erp'[s] = erp[s]
              /\ erp'[s].verifiedBy = erp[s].verifiedBy
              /\ erp'[s].erpPoints = erp[s].erpPoints
              /\ \/ erp'[s].status = erp[s].status
                 \/ /\ last'.op = "submitERP"
                    /\ erp[s].status # "verified"
                    /\ erp'[s].status = "submitted"]_vars

\* C27: what verifyERP and updateERPPoints have added to a student's
\* totalPoints is the profile's current erpPoints (no other handler runs, so
\* totalPoints is that amount).
ErpPointsCreditedOnce ==
    \A s \in Students : totalPoints[s] = erp[s].erpPoints

----------------------------------------------------------------------------
(* Properties of the leaderboard *)

\* C30: for every student and every year/department query, getMyRank returns
\* the rank that getLeaderboard shows for the student under the same query,
\* with 1 <= rank <= totalStudents and 0 <= percentile <= 100.
RankMatchesLeaderboard ==
    det.pc = "ranked" =>
        /\ \E i \in DOMAIN det.leaderboard :
              /\ det.leaderboard[i].id = det.userId
              /\ det.leaderboard[i].rank = det.myRank.rank
        /\ det.myRank.totalStudents = Len(det.leaderboard)
        /\ det.myRank.rank \in 1..det.myRank.totalStudents
        /\ det.myRank.percentile \in 0..100

----------------------------------------------------------------------------
(* Properties of overlapping point updates *)

AllAnswered == \A r \in Reqs : req[r].pc = "done"

\* the requests that saved a totalPoints for student s
WritersOf(s) == {r \in Reqs : req[r].wrote /\ req[r].studentId = s}

Approvers(id) ==
    {r \in Reqs : /\ req[r].pc = "done" /\ req[r].handler = "verifyApprove"
                  /\ req[r].id = id /\ req[r].code = 200}

\* C28: of the approve requests of verifyAchievement for one achievement,
\* overlapping or not, exactly one credits points: at most one is answered
\* 200, and once all are answered the student's totalPoints has grown by the
\* points of the approvals answered 200, one per achievement.
AlreadyApprovedGuardHolds ==
    /\ \A id \in AchIds : Cardinality(Approvers(id)) <= 1
    /\ (\A r \in Reqs : req[r].pc = "done") =>
          totalPoints["s1"] =
              manualSum["s1"]
                + SumPoints({id \in AchIds : Approvers(id) # {}})

====
